---------------------------- MODULE Spec2Model ----------------------------
(***************************************************************************)
(* A model of the SPH fluid simulator: the particle pipeline of            *)
(* ParticleSystem (density, force, integration, boundary and rigid         *)
(* coupling passes), the dynamics and pairwise collision of RigidBody, and *)
(* the frame loop of FluidSimulator.animate with the operations of the     *)
(* user interface that change simulation state.                            *)
(*                                                                         *)
(* Numbers.  The program computes in binary floating point.  The model     *)
(* computes in decimal fixed point: a length, a velocity, a size, the      *)
(* damping, the viscosity and the mass are integers counting hundredths    *)
(* (One stands for 1.0); an angle counts thousandths of a radian; a time   *)
(* step counts thousandths of a second.  A product or quotient is rounded  *)
(* to the nearest unit, symmetrically in the sign, as floating point       *)
(* rounds.  A unit vector is kept as an exact fraction (numerator vector   *)
(* and length) so that a normalisation loses nothing by itself.            *)
(***************************************************************************)
EXTENDS Integers, Sequences, FiniteSets, TLC

One == 10 * 10

Abs(a) == IF a < 0 THEN -a ELSE a

Min2(a, b) == IF a < b THEN a ELSE b

Max2(a, b) == IF a > b THEN a ELSE b

\* a / b for b > 0, rounded to the nearest integer, halves away from zero.
RDiv(a, b) == IF a >= 0 THEN (2 * a + b) \div (2 * b) ELSE -((2 * (-a) + b) \div (2 * b))

\* a * (n / d) for d > 0, rounded as RDiv(a * n, d); the product is split so
\* that no intermediate value leaves the machine integers.
Mul(a, n, d) ==
    LET m == Abs(a)
        k == Abs(n)
        r == (m \div d) * k + RDiv((m % d) * k, d)
    IN  IF (a >= 0) = (n >= 0) THEN r ELSE -r

RECURSIVE SqrtSearch(_, _, _)
SqrtSearch(n, lo, hi) ==
    IF lo >= hi THEN lo
    ELSE LET mid == (lo + hi + 1) \div 2
         IN  IF mid * mid <= n THEN SqrtSearch(n, mid, hi) ELSE SqrtSearch(n, lo, mid - 1)

\* Math.sqrt: the integer part of the square root (exact on perfect squares,
\* and x < r is decided as on the reals for an integer r).
Sqrt(n) == SqrtSearch(n, 0, Min2(n, 46340))

(***************************************************************************)
(* THREE.Vector3                                                           *)
(***************************************************************************)
Vec(a, b, c) == [x |-> a, y |-> b, z |-> c]

Zero3 == Vec(0, 0, 0)

VAdd(a, b) == Vec(a.x + b.x, a.y + b.y, a.z + b.z)

VSub(a, b) == Vec(a.x - b.x, a.y - b.y, a.z - b.z)

VNeg(a) == Vec(-a.x, -a.y, -a.z)

\* multiplyScalar(n / d)
VScale(a, n, d) == Vec(Mul(a.x, n, d), Mul(a.y, n, d), Mul(a.z, n, d))

\* the dot product of two vectors counted in hundredths, in hundredths squared
VDotRaw(a, b) == a.x * b.x + a.y * b.y + a.z * b.z

VLength(a) == Sqrt(VDotRaw(a, a))

\* The unit vector a / |a| as the exact fraction num / den (|a| > 0).
Normal(a, len) == [num |-> a, den |-> len]

\* normal * s, for a scalar s in hundredths
NScale(n, s) == Vec(RDiv(n.num.x * s, n.den), RDiv(n.num.y * s, n.den), RDiv(n.num.z * s, n.den))

\* v . normal, in hundredths
NDot(v, n) == RDiv(VDotRaw(v, n.num), n.den)


(***************************************************************************)
(* ParticleSystem: the SPH kernels                                         *)
(***************************************************************************)
\* A kernel that keeps its value at r = 0 over the whole support
poly6KernelFlat(r, h) ==
    IF r >= 0 /\ r <= h
    THEN Mul(RDiv(1000 * 1000 * 1000, (h * h * h) \div 100), 315, 201062)
    ELSE 0

\* poly6Kernel(r, h), in hundredths: 315 / (64 pi h^9) * (h^2 - r^2)^3.
\* With t = (h^2 - r^2) / h^2 in thousandths this is 315 t^3 / (64 pi h^3).
poly6Kernel(r, h) ==
    IF r >= 0 /\ r <= h
    THEN LET t == RDiv((h * h - r * r) * 1000, h * h)
             q == RDiv(t * t * t, (h * h * h) \div 100)
         IN  Mul(q, 315, 201062)
    ELSE 0

\* The size of spikyGradient at distance r, in hundredths:
\* 45 / (pi h^6) * (h - r)^2, with u = (h - r) / h in thousandths.
spikyMagnitude(r, h) ==
    LET u == RDiv((h - r) * 1000, h)
        g == RDiv(u * u * 45, h * h)
        a == RDiv(g * 10000, h * h)
    IN  RDiv(a * 1000, 3142)

\* spikyGradient(rx, ry, rz, h), in hundredths: coef * (h - r)^2 / r * (rx, ry, rz)
\* with coef = -45 / (pi h^6).
spikyGradient(d, h) ==
    LET r == VLength(d)
    IN  IF r > 0 /\ r <= h
        THEN LET m == spikyMagnitude(r, h)
             IN  Vec(-RDiv(m * d.x, r), -RDiv(m * d.y, r), -RDiv(m * d.z, r))
        ELSE Zero3

\* viscosityLaplacian(r, h), in hundredths: 45 / (pi h^6) * (h - r).
viscosityLaplacian(r, h) ==
    IF r >= 0 /\ r <= h
    THEN LET u == RDiv((h - r) * 1000, h)
             b == RDiv(u * 450000, h * h)
         IN  RDiv(b * 1000, RDiv(3142 * h * h * h, 100000))
    ELSE 0

(***************************************************************************)
(* ParticleSystem: the passes, one particle at a time                      *)
(***************************************************************************)
RECURSIVE densitySumNoSelf(_, _, _, _, _)
\* The inner loop of computeDensity with the particle's own term left out
densitySumNoSelf(i, j, pos, n, prm) ==
    IF j >= n THEN 0
    ELSE LET h == prm.smoothingRadius
             r == VLength(VSub(pos[i], pos[j]))
             w == IF r < h /\ i # j THEN Mul(prm.particleMass, poly6Kernel(r, h), One) ELSE 0
         IN  w + densitySumNoSelf(i, j + 1, pos, n, prm)

RECURSIVE densitySum(_, _, _, _, _)
\* The inner loop of computeDensity for particle i, from neighbour j on.
densitySum(i, j, pos, n, prm) ==
    IF j >= n THEN 0
    ELSE LET h == prm.smoothingRadius
             r == VLength(VSub(pos[i], pos[j]))
             w == IF r < h THEN Mul(prm.particleMass, poly6Kernel(r, h), One) ELSE 0
         IN  w + densitySum(i, j + 1, pos, n, prm)

\* pressures[i] = stiffness * (density - restDensity)
pressureOf(density, prm) == Mul(density - prm.restDensity, prm.stiffness, One)

\* pressure / (density * density)
pressureOverDensity2(pressure, density) == Mul(Mul(pressure, One, density), One, density)

\* The pressure term with the pressure of particle i alone
pressureForceOwnPressure(i, j, pos, dens, pres, prm) ==
    LET grad == spikyGradient(VSub(pos[i], pos[j]), prm.smoothingRadius)
        pressureTerm == Mul(pressureOverDensity2(pres[i], dens[i]), prm.particleMass, One)
    IN  Vec(-(pressureTerm * grad.x), -(pressureTerm * grad.y), -(pressureTerm * grad.z))

\* computeForces, "Pressure force": what neighbour j adds to the accumulator
\* (fx, fy, fz) of particle i, -pressureTerm * grad.
pressureForce(i, j, pos, dens, pres, prm) ==
    LET grad == spikyGradient(VSub(pos[i], pos[j]), prm.smoothingRadius)
        pressureTerm == Mul(pressureOverDensity2(pres[i], dens[i])
                            + pressureOverDensity2(pres[j], dens[j]),
                            prm.particleMass, One)
    IN  Vec(-(pressureTerm * grad.x), -(pressureTerm * grad.y), -(pressureTerm * grad.z))

\* computeForces, "Viscosity force": what neighbour j adds to the accumulator
\* of particle i, viscosityTerm * (v_j - v_i).
viscosityForce(i, j, pos, vel, dens, prm) ==
    LET r == VLength(VSub(pos[i], pos[j]))
        lap == viscosityLaplacian(r, prm.smoothingRadius)
        viscosityTerm == Mul(Mul(prm.viscosity, prm.particleMass, One), lap, dens[j])
        dv == VSub(vel[j], vel[i])
    IN  Vec(Mul(dv.x, viscosityTerm, One), Mul(dv.y, viscosityTerm, One),
            Mul(dv.z, viscosityTerm, One))

RECURSIVE forceSum(_, _, _, _, _, _, _, _)
\* The inner loop of computeForces for particle i, from neighbour j on: the
\* pressure and viscosity terms, in hundredths.
forceSum(i, j, pos, vel, dens, pres, n, prm) ==
    IF j >= n THEN Zero3
    ELSE LET rest == forceSum(i, j + 1, pos, vel, dens, pres, n, prm)
             r == VLength(VSub(pos[i], pos[j]))
         IN  IF i = j \/ ~(r < prm.smoothingRadius) THEN rest
             ELSE VAdd(VAdd(pressureForce(i, j, pos, dens, pres, prm),
                            viscosityForce(i, j, pos, vel, dens, prm)),
                       rest)

\* forces[i]: the neighbour terms plus gravity, fluidGravity * density_i.
forceOf(i, pos, vel, dens, pres, n, prm) ==
    LET f == forceSum(i, 0, pos, vel, dens, pres, n, prm)
        g == Mul(dens[i], prm.fluidGravity, One)
    IN  Vec(f.x, f.y + g, f.z)

\* computeDensity with every pair visited once, from the lower index
computeDensityPairsOnce(pos, n, prm) ==
    [i \in 0 .. (n - 1) |-> densitySum(i, i + 1, pos, n, prm)]

\* computeDensity: the densities array after the pass
computeDensity(pos, n, prm) ==
    [i \in 0 .. (n - 1) |-> densitySum(i, 0, pos, n, prm)]

\* computeDensity: the pressures array after the pass
computePressure(dens, n, prm) ==
    [i \in 0 .. (n - 1) |-> pressureOf(dens[i], prm)]

\* computeForces: the forces array after the pass
computeForces(pos, vel, dens, pres, n, prm) ==
    [i \in 0 .. (n - 1) |-> forceOf(i, pos, vel, dens, pres, n, prm)]

\* integrate: the velocity and position update of one particle (dt in
\* thousandths of a second).
integrateMove(p, v, f, density, dt) ==
    LET a == Vec(Mul(f.x, One, density), Mul(f.y, One, density), Mul(f.z, One, density))
        v1 == Vec(v.x + Mul(a.x, dt, 1000), v.y + Mul(a.y, dt, 1000), v.z + Mul(a.z, dt, 1000))
        p1 == Vec(p.x + Mul(v1.x, dt, 1000), p.y + Mul(v1.y, dt, 1000), p.z + Mul(v1.z, dt, 1000))
    IN  [p |-> p1, v |-> v1]

\* handleBoundaryCollision: "Bottom"; s is the particle's position and velocity.
boundaryBottom(s, prm) ==
    IF s.p.y < prm.boundMin.y
    THEN [p |-> [s.p EXCEPT !.y = prm.boundMin.y],
          v |-> Vec(Mul(s.v.x, 95, 100), Mul(Abs(s.v.y), prm.damping, One),
                    Mul(s.v.z, 95, 100))]
    ELSE s

\* the top reversing the velocity as it finds it
boundaryTopReversing(s, prm) ==
    IF s.p.y > prm.boundMax.y
    THEN [p |-> [s.p EXCEPT !.y = prm.boundMax.y],
          v |-> [s.v EXCEPT !.y = -Mul(s.v.y, prm.damping, One)]]
    ELSE s

\* handleBoundaryCollision: "Top"
boundaryTop(s, prm) ==
    IF s.p.y > prm.boundMax.y
    THEN [p |-> [s.p EXCEPT !.y = prm.boundMax.y],
          v |-> [s.v EXCEPT !.y = -Mul(Abs(s.v.y), prm.damping, One)]]
    ELSE s

\* handleBoundaryCollision: "X boundaries", the lower one
boundaryXMin(s, prm) ==
    IF s.p.x < prm.boundMin.x
    THEN [p |-> [s.p EXCEPT !.x = prm.boundMin.x],
          v |-> [s.v EXCEPT !.x = Mul(Abs(s.v.x), prm.damping, One)]]
    ELSE s

\* handleBoundaryCollision: "X boundaries", the upper one
boundaryXMax(s, prm) ==
    IF s.p.x > prm.boundMax.x
    THEN [p |-> [s.p EXCEPT !.x = prm.boundMax.x],
          v |-> [s.v EXCEPT !.x = -Mul(Abs(s.v.x), prm.damping, One)]]
    ELSE s

\* handleBoundaryCollision: "Z boundaries", the lower one
boundaryZMin(s, prm) ==
    IF s.p.z < prm.boundMin.z
    THEN [p |-> [s.p EXCEPT !.z = prm.boundMin.z],
          v |-> [s.v EXCEPT !.z = Mul(Abs(s.v.z), prm.damping, One)]]
    ELSE s

\* handleBoundaryCollision: "Z boundaries", the upper one
boundaryZMax(s, prm) ==
    IF s.p.z > prm.boundMax.z
    THEN [p |-> [s.p EXCEPT !.z = prm.boundMax.z],
          v |-> [s.v EXCEPT !.z = -Mul(Abs(s.v.z), prm.damping, One)]]
    ELSE s

\* handleBoundaryCollision with the upper test on z left out
handleBoundaryCollisionNoZMax(p, v, prm) ==
    CHOOSE s5 \in
      { boundaryZMin(s4, prm) : s4 \in
      { boundaryXMax(s3, prm) : s3 \in
      { boundaryXMin(s2, prm) : s2 \in
      { boundaryTop(s1, prm) : s1 \in
      { boundaryBottom([p |-> p, v |-> v], prm) } } } } } : TRUE

\* handleBoundaryCollision(i) on the position p and velocity v of particle i:
\* the six tests in the order of the code, each on the result of the one
\* before (s1 .. s6 are the values after each test).
handleBoundaryCollision(p, v, prm) ==
    CHOOSE s6 \in
      { boundaryZMax(s5, prm) : s5 \in
      { boundaryZMin(s4, prm) : s4 \in
      { boundaryXMax(s3, prm) : s3 \in
      { boundaryXMin(s2, prm) : s2 \in
      { boundaryTop(s1, prm) : s1 \in
      { boundaryBottom([p |-> p, v |-> v], prm) } } } } } } : TRUE

\* The response of handleRigidBodyCollisions to one body.  d is the offset of
\* the particle from the body as read when the loop began; s is the particle's
\* current position and velocity.
collideWithBody(s, d, body, prm) ==
    IF body.type \in {"sphere", "cylinder", "torus"}
    THEN LET dist == VLength(d)
             radius == body.size.x
         IN  IF dist < radius /\ dist > 0
             THEN LET n == Normal(d, dist)
                      p1 == VAdd(body.position, NScale(n, radius))
                      dot == NDot(s.v, n)
                      v1 == IF dot < 0
                            THEN VScale(VSub(s.v, NScale(n, 2 * dot)), prm.damping, One)
                            ELSE s.v
                  IN  [p |-> p1, v |-> v1]
             ELSE s
    ELSE IF body.type = "cube"
    THEN LET halfX == Mul(body.size.x, 5, 10)
             halfY == Mul(body.size.y, 5, 10)
             halfZ == Mul(body.size.z, 5, 10)
         IN  IF Abs(d.x) < halfX /\ Abs(d.y) < halfY /\ Abs(d.z) < halfZ
             THEN LET penX == halfX - Abs(d.x)
                      penY == halfY - Abs(d.y)
                      penZ == halfZ - Abs(d.z)
                      minPen == Min2(penX, Min2(penY, penZ))
                  IN  IF minPen = penX
                      THEN LET sign == IF d.x > 0 THEN 1 ELSE -1
                           IN  [p |-> [s.p EXCEPT !.x = body.position.x + sign * halfX],
                                v |-> [s.v EXCEPT !.x = sign * Mul(Abs(s.v.x), prm.damping, One)]]
                      ELSE IF minPen = penY
                      THEN LET sign == IF d.y > 0 THEN 1 ELSE -1
                           IN  [p |-> [s.p EXCEPT !.y = body.position.y + sign * halfY],
                                v |-> [s.v EXCEPT !.y = sign * Mul(Abs(s.v.y), prm.damping, One)]]
                      ELSE LET sign == IF d.z > 0 THEN 1 ELSE -1
                           IN  [p |-> [s.p EXCEPT !.z = body.position.z + sign * halfZ],
                                v |-> [s.v EXCEPT !.z = sign * Mul(Abs(s.v.z), prm.damping, One)]]
             ELSE s
    ELSE s

RECURSIVE collideFrom(_, _, _, _, _)
\* The loop of handleRigidBodyCollisions over the bodies, from body k on.  p0 is
\* the position read into px, py, pz before the loop.
collideFrom(s, p0, k, bodies, prm) ==
    IF k > Len(bodies) THEN s
    ELSE collideFrom(collideWithBody(s, VSub(p0, bodies[k].position), bodies[k], prm),
                     p0, k + 1, bodies, prm)

\* handleRigidBodyCollisions with the coupling made two-way: a body that
\* displaces the particle is displaced the other way by as much.
handleRigidBodyCollisionsTwoWay(p, v, bodies, prm) ==
    LET s == collideFrom([p |-> p, v |-> v], p, 1, bodies, prm)
    IN  [p |-> s.p, v |-> s.v,
         bodies |-> [k \in DOMAIN bodies |->
                       IF collideWithBody([p |-> p, v |-> v], VSub(p, bodies[k].position),
                                          bodies[k], prm).p # p
                       THEN [bodies[k] EXCEPT !.position = VSub(@, VSub(s.p, p))]
                       ELSE bodies[k]]]

\* handleRigidBodyCollisions(i, rigidBodies): the particle's position and
\* velocity afterwards, and the bodies afterwards (the function holds references
\* to the live bodies).
handleRigidBodyCollisions(p, v, bodies, prm) ==
    LET s == collideFrom([p |-> p, v |-> v], p, 1, bodies, prm)
    IN  [p |-> s.p, v |-> s.v, bodies |-> bodies]

(***************************************************************************)
(* THREE.Euler and Vector3.applyEuler: angles in thousandths of a radian,  *)
(* sines and cosines in thousandths.                                       *)
(***************************************************************************)
\* degrees * Math.PI / 180
DegToRad(deg) == Mul(deg, 17453, 1000)

\* Math.sin by Bhaskara's rational approximation (error below 0.002, exact at
\* the multiples of a right angle).
Sin(a) ==
    LET x == a % 6283
        y == IF x > 3142 THEN x - 3142 ELSE x
        p == (y * (3142 - y)) \div 100
        s == RDiv(16000 * p, 493608 - 4 * p)
    IN  IF x > 3142 THEN -s ELSE s

Cos(a) == Sin(a + 1571)

RotX(v, a) == Vec(v.x,
                  RDiv(v.y * Cos(a) - v.z * Sin(a), 1000),
                  RDiv(v.y * Sin(a) + v.z * Cos(a), 1000))

RotY(v, a) == Vec(RDiv(v.x * Cos(a) + v.z * Sin(a), 1000),
                  v.y,
                  RDiv(v.z * Cos(a) - v.x * Sin(a), 1000))

RotZ(v, a) == Vec(RDiv(v.x * Cos(a) - v.y * Sin(a), 1000),
                  RDiv(v.x * Sin(a) + v.y * Cos(a), 1000),
                  v.z)

\* corner.applyEuler(rotation), the Euler angles taken in the order XYZ
applyEuler(v, rot) == RotX(RotY(RotZ(v, rot.z), rot.y), rot.x)

\* The eight corners of the box of half extents hs, rotated by rot.
rotatedCorners(hs, rot) ==
    { applyEuler(Vec(sx * hs.x, sy * hs.y, sz * hs.z), rot) :
        sx \in {-1, 1}, sy \in {-1, 1}, sz \in {-1, 1} }

SetMin(S) == CHOOSE m \in S : \A k \in S : m <= k

SetMax(S) == CHOOSE m \in S : \A k \in S : m >= k

\* RigidBody.update: the effective radius of a rotated box on each axis.
effectiveRadiusOf(hs, rot) ==
    LET cs == rotatedCorners(hs, rot)
        xs == { c.x : c \in cs }
        ys == { c.y : c \in cs }
        zs == { c.z : c \in cs }
    IN  Vec(Max2(Abs(SetMin(xs)), Abs(SetMax(xs))),
            Max2(Abs(SetMin(ys)), Abs(SetMax(ys))),
            Max2(Abs(SetMin(zs)), Abs(SetMax(zs))))

\* the rotation set by the user (degrees) plus the rotation of the physics
totalRotationOf(body) ==
    Vec(DegToRad(body.rotationX) + body.physicalRotation.x,
        DegToRad(body.rotationY) + body.physicalRotation.y,
        DegToRad(body.rotationZ) + body.physicalRotation.z)

\* Math.round(angle / (Math.PI / 2)) * (Math.PI / 2)
snapTarget(angle) == ((2 * angle + 1571) \div (2 * 1571)) * 1571

(***************************************************************************)
(* RigidBody                                                               *)
(***************************************************************************)
SphereTypes == {"sphere", "torus", "hollow-sphere"}

CylinderTypes == {"cylinder", "cone", "hollow-cylinder", "boat"}

\* main.js dropRigidBody: the types the user interface can drop
BodyTypes == {"sphere", "cube", "cylinder", "torus", "cone", "boat",
              "hollow-sphere", "hollow-cube", "hollow-cylinder"}

\* dropRigidBody: the base size of each type
baseSizeOf(type) ==
    CASE type = "sphere" -> Vec(80, 80, 80)
      [] type = "cube" -> Vec(150, 150, 150)
      [] type = "cylinder" -> Vec(60, 150, 60)
      [] type = "torus" -> Vec(80, 30, 30)
      [] type = "cone" -> Vec(80, 150, 80)
      [] type = "boat" -> Vec(250, 60, 120)
      [] type = "hollow-sphere" -> Vec(100, 100, 100)
      [] type = "hollow-cube" -> Vec(150, 150, 150)
      [] type = "hollow-cylinder" -> Vec(70, 150, 70)
      [] OTHER -> Vec(100, 100, 100)

\* new RigidBody(type, position, size, scene, scale, rotationX, rotationY,
\* rotationZ, density), then body.id = id
newRigidBody(id, type, position, size, scale, rx, ry, rz, density) ==
    [id |-> id, type |-> type, position |-> position,
     size |-> VScale(size, scale, One), baseSize |-> size, scale |-> scale,
     velocity |-> Zero3, angularVelocity |-> Zero3, physicalRotation |-> Zero3,
     rotationX |-> rx, rotationY |-> ry, rotationZ |-> rz, density |-> density]

\* setScale(scale)
setScale(body, scale) == [body EXCEPT !.scale = scale, !.size = VScale(body.baseSize, scale, One)]

\* checkObjectCollisions: the effective collision radius of a body
collisionRadius(body) ==
    IF body.type \in SphereTypes THEN body.size.x
    ELSE IF body.type \in CylinderTypes THEN Mul(body.size.x, 12, 10)
    ELSE Mul(VLength(body.size), 6, 10)

VCross(a, b) == Vec(a.y * b.z - a.z * b.y, a.z * b.x - a.x * b.z, a.x * b.y - a.y * b.x)

\* the impulse scalar with a restitution of 1.0 in place of 0.4
impulseScalarElastic(velocityAlongNormal) == -Mul(velocityAlongNormal, 2, 1)

\* checkObjectCollisions: const restitution = 0.4;
\* const j = -(1 + restitution) * velocityAlongNormal
impulseScalar(velocityAlongNormal) == -Mul(velocityAlongNormal, 14, 10)

\* the centres are never too close for a normal
underflowsNever(distance) == FALSE

\* checkObjectCollisions: if (distance < 0.001) return; at the resolution of
\* the model a distance below 0.001 is a distance of 0.
underflows(distance) == distance < 1

\* each body moved by half of its part of the overlap
shareOfHalved(overlap, speed, totalVel) ==
    IF totalVel > 0 THEN RDiv(overlap * speed, 2 * totalVel) ELSE Mul(overlap, 25, 100)

\* the part of the overlap of the body with the other speed
shareOfSlower(overlap, speed, totalVel) ==
    IF totalVel > 0 THEN RDiv(overlap * (totalVel - speed), totalVel) ELSE Mul(overlap, 5, 10)

\* checkObjectCollisions: overlap * thisRatio and overlap * otherRatio, the
\* ratio of a body being its speed over totalVel, or 0.5 when totalVel is 0
shareOf(overlap, speed, totalVel) ==
    IF totalVel > 0 THEN RDiv(overlap * speed, totalVel) ELSE Mul(overlap, 5, 10)

\* The body of the forEach of checkObjectCollisions for one other body:
\* this and other afterwards.
resolvePair(this, other) ==
    LET diff == VSub(this.position, other.position)
        distance == VLength(diff)
        minDistance == collisionRadius(this) + collisionRadius(other)
    IN  IF underflows(distance) \/ ~(distance < minDistance)
        THEN [this |-> this, other |-> other]
        ELSE
        \* diff.clone().normalize() divides by (length || 1)
        LET normal == Normal(diff, Max2(distance, 1))
            overlap == minDistance - distance
            thisLen == VLength(this.velocity)
            totalVel == thisLen + VLength(other.velocity)
            thisShare == shareOf(overlap, thisLen, totalVel)
            otherShare == shareOf(overlap, totalVel - thisLen, totalVel)
            thisPos == VAdd(this.position, NScale(normal, thisShare))
            otherPos == VAdd(other.position, NScale(normal, -otherShare))
            relativeVel == VSub(this.velocity, other.velocity)
            velocityAlongNormal == NDot(relativeVel, normal)
        IN  IF velocityAlongNormal < 0 \/ overlap > 10
            THEN LET j == impulseScalar(velocityAlongNormal)
                     impulse == NScale(normal, Mul(j, 5, 10))
                     tangent == VSub(relativeVel, NScale(normal, velocityAlongNormal))
                     tangentLen == VLength(tangent)
                     frictionMagnitude == Mul(tangentLen, 3, 10)
                     friction == IF frictionMagnitude > 0
                                 THEN NScale(Normal(tangent, tangentLen),
                                             -Mul(frictionMagnitude, 5, 10))
                                 ELSE Zero3
                     torqueAxis == VCross(normal.num, relativeVel)
                     torque == Vec(RDiv(torqueAxis.x, 10 * normal.den),
                                   RDiv(torqueAxis.y, 10 * normal.den),
                                   RDiv(torqueAxis.z, 10 * normal.den))
                 IN  [this |-> [this EXCEPT
                                  !.position = thisPos,
                                  !.velocity = VAdd(VAdd(this.velocity, impulse), friction),
                                  !.angularVelocity =
                                      VAdd(VScale(this.angularVelocity, 7, 10), torque)],
                      other |-> [other EXCEPT
                                  !.position = otherPos,
                                  !.velocity = VSub(VSub(other.velocity, impulse), friction),
                                  !.angularVelocity = VScale(other.angularVelocity, 7, 10)]]
            ELSE [this |-> [this EXCEPT !.position = thisPos],
                  other |-> [other EXCEPT !.position = otherPos]]

RECURSIVE collisionsFrom(_, _, _)
\* The forEach of checkObjectCollisions of body k over allBodies, from o on.
collisionsFrom(k, o, bodies) ==
    IF o > Len(bodies) THEN bodies
    ELSE IF o = k THEN collisionsFrom(k, o + 1, bodies)
    ELSE LET r == resolvePair(bodies[k], bodies[o])
         IN  collisionsFrom(k, o + 1, [bodies EXCEPT ![k] = r.this, ![o] = r.other])

\* bodies[k].checkObjectCollisions(bodies)
checkObjectCollisions(k, bodies) == collisionsFrom(k, 1, bodies)

\* gravity reduced by the whole of the buoyancy factor
effectiveGravityArchimedes(gravity, fluidDensity, density) ==
    Mul(gravity, 1000 - RDiv(fluidDensity * 10, density), 1000)

\* RigidBody.update: buoyancyFactor = fluidDensity / this.density (here in
\* thousandths) and effectiveGravity = gravity * (1 - buoyancyFactor * 0.8)
effectiveGravity(gravity, fluidDensity, density) ==
    Mul(gravity, 1000 - Mul(RDiv(fluidDensity * 10, density), 8, 10), 1000)

\* RigidBody.update: dragFactor = Math.min(fluidDensity / 1000, 2), and what
\* the drag keeps of the velocity, 1 - 0.01 * dragFactor * dt * 60, in 1/10000
dragKeep(dt, fluidDensity) ==
    10000 - RDiv(6 * Min2(RDiv(fluidDensity, 100), 2000) * dt, 1000)

\* RigidBody.update, first part: buoyancy, gravity, drag and the position
\* update (dt in thousandths of a second, fluidDensity in hundredths).
updateIntegrate(body, dt, gravity, fluidDensity) ==
    LET vy == body.velocity.y + Mul(effectiveGravity(gravity, fluidDensity, body.density),
                                    dt, 1000)
        keep == dragKeep(dt, fluidDensity)
        v1 == VScale(Vec(body.velocity.x, vy, body.velocity.z), keep, 10000)
    IN  [body EXCEPT !.velocity = v1,
                     !.position = VAdd(body.position, VScale(v1, dt, 1000))]

\* RigidBody.update: the angular damping and the rotation update.
updateRotation(body, dt) ==
    LET w == VScale(body.angularVelocity, 98, 100)
    IN  [body EXCEPT !.angularVelocity = w,
                     !.physicalRotation = VAdd(body.physicalRotation, VScale(w, dt, 1000))]

\* The response shared by the three bottom branches: clamp, torque from the
\* horizontal velocity (kick in tenths), bounce, friction, angular friction.
bottomContact(b, y, kick, angKeep) ==
    LET w1 == IF Abs(b.velocity.y) > 10
              THEN Vec(b.angularVelocity.x + b.velocity.z * kick,
                       b.angularVelocity.y,
                       b.angularVelocity.z - b.velocity.x * kick)
              ELSE b.angularVelocity
    IN  [b EXCEPT !.position.y = y,
                  !.velocity = Vec(Mul(b.velocity.x, 8, 10), -Mul(b.velocity.y, 2, 10),
                                   Mul(b.velocity.z, 8, 10)),
                  !.angularVelocity = VScale(w1, angKeep, 100)]

isMovingSlowly(b) == VLength(b.velocity) < 50 /\ VLength(b.angularVelocity) < 1000

\* physicalRotation += (target - total) * alignSpeed on one axis
alignStep(total) == Mul(snapTarget(total) - total, 1, 10)

\* The bottom branch of the cylinder-like types after the contact response c:
\* the alignment with the ground on the x and z axes.
alignCylinder(c) ==
    IF isMovingSlowly(c)
    THEN [c EXCEPT
            !.physicalRotation =
                Vec(c.physicalRotation.x + alignStep(totalRotationOf(c).x),
                    c.physicalRotation.y,
                    c.physicalRotation.z + alignStep(totalRotationOf(c).z)),
            !.angularVelocity = VScale(c.angularVelocity, 5, 10)]
    ELSE c

\* The bottom branch of the boxes after the contact response c: the alignment
\* of a face with the ground on the three axes.
alignBox(c) ==
    [c EXCEPT
       !.physicalRotation =
           Vec(c.physicalRotation.x + alignStep(totalRotationOf(c).x),
               c.physicalRotation.y + alignStep(totalRotationOf(c).y),
               c.physicalRotation.z + alignStep(totalRotationOf(c).z)),
       !.angularVelocity = VScale(c.angularVelocity, 5, 10)]

\* The bottom branch of the boxes after the alignment: the effective radius is
\* recalculated and the position adjusted.
reseatBox(e, newEffectiveRadiusY, boundMin) ==
    IF e.position.y - newEffectiveRadiusY < boundMin.y
    THEN [e EXCEPT !.position.y = boundMin.y + newEffectiveRadiusY]
    ELSE e

\* The lowest corner of the rotated box of body e
newMinY(e) ==
    SetMin({ k.y : k \in rotatedCorners(VScale(e.size, 5, 10), totalRotationOf(e)) })

\* The bottom branch of the boxes; ry is effectiveRadius.y.
bottomBox(b, ry, boundMin) ==
    IF b.position.y - ry < boundMin.y
    THEN CHOOSE r \in
           { IF isMovingSlowly(c)
             THEN CHOOSE r2 \in { reseatBox(e, Abs(newMinY(e)), boundMin) :
                                  e \in { alignBox(c) } } : TRUE
             ELSE c :
             c \in { bottomContact(b, boundMin.y + ry, 5, 70) } } : TRUE
    ELSE b

\* RigidBody.update: the bottom of the domain.
updateBottom(b, boundMin) ==
    IF b.type \in SphereTypes
    THEN IF b.position.y - b.size.x < boundMin.y
         THEN bottomContact(b, boundMin.y + b.size.x, 3, 85)
         ELSE b
    ELSE IF b.type \in CylinderTypes
    THEN IF b.position.y - b.size.x < boundMin.y
         THEN CHOOSE r \in { alignCylinder(c) :
                             c \in { bottomContact(b, boundMin.y + b.size.x, 3, 85) } } : TRUE
         ELSE b
    ELSE CHOOSE r \in { bottomBox(b, ry, boundMin) :
                        ry \in { effectiveRadiusOf(VScale(b.size, 5, 10),
                                                   totalRotationOf(b)).y } } : TRUE

\* updateTop with the position left where it is
updateTopNoClamp(b, r, boundMax) ==
    IF b.position.y + r > boundMax.y
    THEN [b EXCEPT !.velocity.y = -Mul(b.velocity.y, 2, 10)]
    ELSE b

\* RigidBody.update: the top of the domain; r is the radius or the effective
\* radius on the y axis.
updateTop(b, r, boundMax) ==
    IF b.position.y + r > boundMax.y
    THEN [b EXCEPT !.position.y = boundMax.y - r, !.velocity.y = -Mul(b.velocity.y, 2, 10)]
    ELSE b

\* RigidBody.update: the sides on the x axis (kick in tenths: 2 for the round
\* types, 3 for the boxes).
updateSidesX(b, r, kick, boundMin, boundMax) ==
    LET c == IF b.position.x - r < boundMin.x
             THEN [b EXCEPT !.position.x = boundMin.x + r,
                            !.angularVelocity.z = b.angularVelocity.z + b.velocity.y * kick,
                            !.velocity.x = -Mul(b.velocity.x, 3, 10)]
             ELSE b
    IN  IF c.position.x + r > boundMax.x
        THEN [c EXCEPT !.position.x = boundMax.x - r,
                       !.angularVelocity.z = c.angularVelocity.z - c.velocity.y * kick,
                       !.velocity.x = -Mul(c.velocity.x, 3, 10)]
        ELSE c

\* RigidBody.update: the sides on the z axis.
updateSidesZ(b, r, kick, boundMin, boundMax) ==
    LET c == IF b.position.z - r < boundMin.z
             THEN [b EXCEPT !.position.z = boundMin.z + r,
                            !.angularVelocity.x = b.angularVelocity.x - b.velocity.y * kick,
                            !.velocity.z = -Mul(b.velocity.z, 3, 10)]
             ELSE b
    IN  IF c.position.z + r > boundMax.z
        THEN [c EXCEPT !.position.z = boundMax.z - r,
                       !.angularVelocity.x = c.angularVelocity.x + c.velocity.y * kick,
                       !.velocity.z = -Mul(c.velocity.z, 3, 10)]
        ELSE c

\* The extent RigidBody.update clamps a body with on each axis: the radius of a
\* round body, the effective radius of a box, computed before the bottom branch.
boundaryExtent(b) ==
    IF b.type \in SphereTypes \cup CylinderTypes
    THEN Vec(b.size.x, b.size.x, b.size.x)
    ELSE effectiveRadiusOf(VScale(b.size, 5, 10), totalRotationOf(b))

\* kick of the side walls on the spin, in tenths
sideKick(b) == IF b.type \in SphereTypes \cup CylinderTypes THEN 2 ELSE 3

\* RigidBody.update: the boundary collisions (bottom, top, sides), each on the
\* result of the one before, with the extent ext of the body.
boundaryWith(b, ext, boundMin, boundMax) ==
    CHOOSE b4 \in
      { updateSidesZ(b3, ext.z, sideKick(b), boundMin, boundMax) : b3 \in
      { updateSidesX(b2, ext.x, sideKick(b), boundMin, boundMax) : b2 \in
      { updateTop(b1, ext.y, boundMax) : b1 \in
      { updateBottom(b, boundMin) } } } } : TRUE

\* RigidBody.update: the boundary collisions.  The extent is the one computed
\* from the body as it was before the bottom branch.
updateBoundary(b, boundMin, boundMax) ==
    CHOOSE r \in { boundaryWith(b, ext, boundMin, boundMax) :
                   ext \in { boundaryExtent(b) } } : TRUE

\* RigidBody.update from the call of checkObjectCollisions on: the collisions
\* of body k with the others, then its rotation and its boundary collisions.
updateCollide(k, bodies, dt, boundMin, boundMax) ==
    CHOOSE r \in { [bs EXCEPT ![k] = updateBoundary(updateRotation(bs[k], dt),
                                                    boundMin, boundMax)] :
                   bs \in { checkObjectCollisions(k, bodies) } } : TRUE

\* bodies[k].update(dt, gravity, boundMin, boundMax, damping, fluidDensity, bodies)
update(k, bodies, dt, gravity, boundMin, boundMax, fluidDensity) ==
    updateCollide(k, [bodies EXCEPT ![k] = updateIntegrate(bodies[k], dt, gravity, fluidDensity)],
                  dt, boundMin, boundMax)

(***************************************************************************)
(* FluidSimulator: state                                                   *)
(***************************************************************************)
VARIABLES
    params,           \* FluidSimulator.params, shared with the ParticleSystem
    objectParams,     \* FluidSimulator.objectParams
    paused,           \* FluidSimulator.paused
    rigidBodies,      \* FluidSimulator.rigidBodies, a sequence of bodies
    objectCounter,    \* FluidSimulator.objectCounter
    numParticles,     \* ParticleSystem.numParticles
    positions,        \* ParticleSystem.positions, one vector per particle
    velocities,       \* ParticleSystem.velocities
    densities,        \* ParticleSystem.densities
    pressures,        \* ParticleSystem.pressures
    forces,           \* ParticleSystem.forces
    pc,               \* where the program is: idle between frames, or in a frame
    phase,            \* animate: how many phases of the frame have begun
    upd,              \* ParticleSystem.update: how many passes have begun
    idx,              \* the index of the running loop
    pass,             \* the index of the extra collision pass
    originalTimeStep, \* animate: const originalTimeStep
    frame,            \* history: the number of frames begun
    phaseLog,         \* history: the phases of the frame in the order they began
    integrated,       \* history: the bodies whose position update ran in the frame
    densWritten,      \* history: the particles whose density the step has written
    forceWritten,     \* history: the particles whose force the step has written
    moved,            \* history: the particles the step has integrated
    pushed,           \* history: the particles a rigid body has displaced in the step
    ops,              \* history: the number of operations of the user interface
    call,             \* history: the arguments of the call, where one function is run
    inits,            \* history: the arrays every initParticleArrays has produced
    threw,            \* history: ParticleSystem.update threw in the frame
    before            \* history: the simulation state when the frame began

vars == <<params, objectParams, paused, rigidBodies, objectCounter, numParticles,
          positions, velocities, densities, pressures, forces, pc, phase, upd, idx,
          pass, originalTimeStep, frame, phaseLog, integrated, densWritten,
          forceWritten, moved, pushed, ops, call, inits, threw, before>>

simVars == <<params, objectParams, paused, rigidBodies, objectCounter>>

particleVars == <<numParticles, positions, velocities, densities, pressures, forces>>

loopVars == <<phase, upd, idx, pass, originalTimeStep>>

historyVars == <<frame, phaseLog, integrated, densWritten, forceWritten, moved, pushed,
                  ops, call, inits, threw, before>>

MaxParticles == 2

MaxBodies == 2

MaxFrames == 2

MaxOps == 2

\* animate: for (let i = 0; i < 3; i++)
ExtraPasses == 3

Particles == 0 .. (numParticles - 1)

\* main.js constructor: this.params (numParticles is drawn by Init)
defaultParams(n) ==
    [numParticles |-> n, particleMass |-> 100, restDensity |-> 100000,
     smoothingRadius |-> 50, stiffness |-> 2000, viscosity |-> 30,
     fluidGravity |-> -980, timeStep |-> 3, damping |-> 60,
     boundMin |-> Vec(-800, -500, -800), boundMax |-> Vec(800, 1200, 800),
     simulationSpeed |-> 10]

\* main.js constructor: this.objectParams
defaultObjectParams ==
    [gravity |-> -980, scale |-> 100, rotationX |-> 0, rotationY |-> 0,
     rotationZ |-> 0, density |-> 2700]

\* Math.ceil(Math.pow(n, 1/3))
ceilCbrt(n) == CHOOSE c \in 1 .. n : c * c * c >= n /\ (c = 1 \/ (c - 1) * (c - 1) * (c - 1) < n)

\* What Math.random() contributes to one particle in initParticleArrays: an
\* offset of the position within (-0.05, 0.05) and a velocity within
\* (-0.25, 0.25) on x and z.
Jitters == { [dp |-> Vec(0, 0, 0), dv |-> Vec(0, 0, 0)],
             [dp |-> Vec(3, -4, 2), dv |-> Vec(20, 0, -15)] }

\* initParticleArrays: the lattice position of particle i of n
latticePosition(i, n) ==
    LET cubeSize == ceilCbrt(n)
        offset == (cubeSize * 30) \div 2
    IN  Vec((i % cubeSize) * 30 - offset,
            (i \div (cubeSize * cubeSize)) * 30 + 500,
            ((i % (cubeSize * cubeSize)) \div cubeSize) * 30 - offset)

\* new ParticleSystem(n, params): the arrays after initParticleArrays, for the
\* random draws j.
InitParticles(n, j) ==
    /\ numParticles = n
    /\ positions = [i \in 0 .. (n - 1) |-> VAdd(latticePosition(i, n), j[i].dp)]
    /\ velocities = [i \in 0 .. (n - 1) |-> j[i].dv]
    /\ densities = [i \in 0 .. (n - 1) |-> 0]
    /\ pressures = [i \in 0 .. (n - 1) |-> 0]
    /\ forces = [i \in 0 .. (n - 1) |-> Zero3]

InitLoop ==
    /\ pc = "idle"
    /\ phase = 0
    /\ upd = 0
    /\ idx = 0
    /\ pass = 0
    /\ originalTimeStep = 0

InitHistory ==
    /\ frame = 0
    /\ phaseLog = <<>>
    /\ integrated = {}
    /\ densWritten = {}
    /\ forceWritten = {}
    /\ moved = {}
    /\ pushed = {}
    /\ ops = 0
    /\ call = <<>>
    /\ threw = FALSE
    /\ before = <<>>

\* What the history keeps of one initParticleArrays
initRecord(n, pos, vel) == [n |-> n, positions |-> pos, velocities |-> vel]

\* The state after new FluidSimulator().
Init ==
    /\ \E n \in 1 .. MaxParticles :
          /\ params = defaultParams(n)
          /\ \E j \in [0 .. (n - 1) -> Jitters] : InitParticles(n, j)
    /\ inits = <<initRecord(numParticles, positions, velocities)>>
    /\ objectParams = defaultObjectParams
    /\ paused = FALSE
    /\ rigidBodies = <<>>
    /\ objectCounter = 0
    /\ InitLoop
    /\ InitHistory

(***************************************************************************)
(* FluidSimulator.animate: one frame                                       *)
(***************************************************************************)
\* the phases with the particle system updated first
AnimateOrderParticlesFirst == <<"particles", "bodies", "passes">>

\* animate: the phases of an unpaused frame, in the order of the code
AnimateOrder == <<"bodies", "passes", "particles">>

\* the passes with the forces computed before the densities
UpdateOrderForcesFirst == <<"forces", "density", "integrate">>

\* ParticleSystem.update: the passes, in the order of the code
UpdateOrder == <<"density", "forces", "integrate">>

\* A time step that grows with the number of frames begun
scaledTimeStepByFrame == Mul(params.timeStep, params.simulationSpeed, 10) + frame

\* this.params.timeStep * speedMultiplier
scaledTimeStep == Mul(params.timeStep, params.simulationSpeed, 10)

\* animate with the simulation running: the frame begins.
AnimateBegin ==
    /\ pc = "idle"
    /\ ~paused
    /\ frame < MaxFrames
    /\ pc' = "next"
    /\ phase' = 0
    /\ frame' = frame + 1
    /\ phaseLog' = <<>>
    /\ integrated' = {}
    /\ threw' = FALSE
    /\ before' = [timeStep |-> params.timeStep, rigidBodies |-> rigidBodies,
                  positions |-> positions, velocities |-> velocities,
                  densities |-> densities, pressures |-> pressures, forces |-> forces]
    /\ UNCHANGED <<simVars, particleVars, upd, idx, pass, originalTimeStep,
                   densWritten, forceWritten, moved, pushed, ops, call, inits>>

\* animate with the simulation paused: the frame only renders.
AnimatePaused ==
    /\ pc = "idle"
    /\ paused
    /\ UNCHANGED vars

\* animate: the next phase of the frame begins, or the frame ends.
NextPhase ==
    /\ pc = "next"
    /\ IF phase = Len(AnimateOrder)
       THEN /\ pc' = "idle"
            /\ UNCHANGED <<phase, phaseLog, idx, pass>>
       ELSE LET ph == AnimateOrder[phase + 1]
            IN  /\ phase' = phase + 1
                /\ phaseLog' = Append(phaseLog, ph)
                /\ idx' = 1
                /\ pass' = 1
                /\ pc' = IF ph = "particles" THEN "scale"
                         ELSE IF rigidBodies = <<>> THEN "next"
                         ELSE IF ph = "bodies" THEN "bodyIntegrate"
                         ELSE "pass"
    /\ UNCHANGED <<simVars, particleVars, upd, originalTimeStep, frame, integrated,
                   densWritten, forceWritten, moved, pushed, ops, call, inits, threw,
                   before>>

\* body.update up to the position update, for body idx of the forEach.
BodyIntegrate ==
    /\ pc = "bodyIntegrate"
    /\ rigidBodies' = [rigidBodies EXCEPT ![idx] =
                          updateIntegrate(@, scaledTimeStep, objectParams.gravity,
                                          params.restDensity)]
    /\ integrated' = integrated \cup {idx}
    /\ pc' = "bodyCollide"
    /\ UNCHANGED <<params, objectParams, paused, objectCounter, particleVars, loopVars,
                   frame, phaseLog, densWritten, forceWritten, moved, pushed, ops, call,
                   inits, threw, before>>

\* body.update from checkObjectCollisions on, for body idx of the forEach.
BodyCollide ==
    /\ pc = "bodyCollide"
    /\ rigidBodies' = updateCollide(idx, rigidBodies, scaledTimeStep,
                                    params.boundMin, params.boundMax)
    /\ IF idx < Len(rigidBodies)
       THEN /\ idx' = idx + 1
            /\ pc' = "bodyIntegrate"
       ELSE /\ idx' = idx
            /\ pc' = "next"
    /\ UNCHANGED <<params, objectParams, paused, objectCounter, particleVars, phase, upd,
                   pass, originalTimeStep, historyVars>>

\* One call of body.checkObjectCollisions in the extra collision passes.
CollisionPass ==
    /\ pc = "pass"
    /\ rigidBodies' = checkObjectCollisions(idx, rigidBodies)
    /\ IF idx < Len(rigidBodies)
       THEN /\ idx' = idx + 1
            /\ pass' = pass
            /\ pc' = "pass"
       ELSE IF pass < ExtraPasses
       THEN /\ idx' = 1
            /\ pass' = pass + 1
            /\ pc' = "pass"
       ELSE /\ idx' = idx
            /\ pass' = pass
            /\ pc' = "next"
    /\ UNCHANGED <<params, objectParams, paused, objectCounter, particleVars, phase, upd,
                   originalTimeStep, historyVars>>

\* animate: the time step is scaled for the particle system, update begins.
ScaleTimeStep ==
    /\ pc = "scale"
    /\ originalTimeStep' = params.timeStep
    /\ params' = [params EXCEPT !.timeStep = scaledTimeStep]
    /\ pc' = "updNext"
    /\ upd' = 0
    /\ densWritten' = {}
    /\ forceWritten' = {}
    /\ moved' = {}
    /\ pushed' = {}
    /\ UNCHANGED <<objectParams, paused, rigidBodies, objectCounter, particleVars, phase,
                   idx, pass, frame, phaseLog, integrated, ops, call, inits, threw,
                   before>>

\* ParticleSystem.update: the next pass begins, or update returns.
NextPass ==
    /\ pc = "updNext"
    /\ IF upd = Len(UpdateOrder)
       THEN /\ pc' = "restore"
            /\ UNCHANGED <<upd, idx>>
       ELSE /\ upd' = upd + 1
            /\ idx' = 0
            /\ pc' = UpdateOrder[upd + 1]
    /\ UNCHANGED <<simVars, particleVars, phase, pass, originalTimeStep, historyVars>>

\* Where the loop of a pass goes after particle idx.
AfterParticle ==
    IF idx + 1 < numParticles
    THEN idx' = idx + 1 /\ pc' = pc
    ELSE idx' = idx /\ pc' = "updNext"

\* computeDensity: the body of the loop for particle idx.
DensityStep ==
    /\ pc = "density"
    /\ LET density == densitySum(idx, 0, positions, numParticles, params)
       IN  /\ densities' = [densities EXCEPT ![idx] = density]
           /\ pressures' = [pressures EXCEPT ![idx] = pressureOf(density, params)]
    /\ densWritten' = densWritten \cup {idx}
    /\ AfterParticle
    /\ UNCHANGED <<simVars, numParticles, positions, velocities, forces, phase, upd, pass,
                   originalTimeStep, frame, phaseLog, integrated, forceWritten, moved,
                   pushed, ops, call, inits, threw, before>>

\* computeForces: forces.fill(0) before the loop, then the body of the loop for
\* particle idx.
ForcesStep ==
    /\ pc = "forces"
    /\ LET cleared == IF idx = 0 THEN [i \in Particles |-> Zero3] ELSE forces
       IN  forces' = [cleared EXCEPT ![idx] =
                         forceOf(idx, positions, velocities, densities, pressures,
                                 numParticles, params)]
    /\ forceWritten' = forceWritten \cup {idx}
    /\ AfterParticle
    /\ UNCHANGED <<simVars, numParticles, positions, velocities, densities, pressures,
                   phase, upd, pass, originalTimeStep, frame, phaseLog, integrated,
                   densWritten, moved, pushed, ops, call, inits, threw, before>>

\* integrate: the body of the loop for one particle of density at least 1.0,
\* up to and including handleBoundaryCollision: the particle's position and
\* velocity.
integrateAndBound(p, v, f, density, prm) ==
    CHOOSE b \in { handleBoundaryCollision(m.p, m.v, prm) :
                   m \in { integrateMove(p, v, f, density, prm.timeStep) } } : TRUE

\* integrate: the body of the loop for one particle of density at least 1.0:
\* the particle's position and velocity and the bodies afterwards.
integrateParticle(p, v, f, density, bodies, prm) ==
    CHOOSE r \in { handleRigidBodyCollisions(b.p, b.v, bodies, prm) :
                   b \in { integrateAndBound(p, v, f, density, prm) } } : TRUE

\* A floor test that lets every particle through
belowFloorNever(density) == FALSE

\* integrate: if (density < 1.0) continue
belowFloor(density) == density < One

\* integrate: the positions and velocities of all particles after the loop
integrate(pos, vel, frc, dens, n, bodies, prm) ==
    [i \in 0 .. (n - 1) |->
        IF belowFloor(dens[i])
        THEN [p |-> pos[i], v |-> vel[i]]
        ELSE CHOOSE s \in { [p |-> r.p, v |-> r.v] :
                            r \in { integrateParticle(pos[i], vel[i], frc[i], dens[i],
                                                      bodies, prm) } } : TRUE]

\* integrate: the body of the loop for particle idx.
IntegrateStep ==
    /\ pc = "integrate"
    /\ IF belowFloor(densities[idx])
       THEN UNCHANGED <<positions, velocities, rigidBodies, moved, pushed>>
       ELSE \E r \in { integrateParticle(positions[idx], velocities[idx], forces[idx],
                                         densities[idx], rigidBodies, params) } :
               /\ positions' = [positions EXCEPT ![idx] = r.p]
               /\ velocities' = [velocities EXCEPT ![idx] = r.v]
               /\ rigidBodies' = r.bodies
               /\ moved' = moved \cup {idx}
               /\ pushed' = IF r.p = integrateAndBound(positions[idx], velocities[idx],
                                                       forces[idx], densities[idx], params).p
                            THEN pushed
                            ELSE pushed \cup {idx}
    /\ AfterParticle
    /\ UNCHANGED <<params, objectParams, paused, objectCounter, numParticles, densities,
                   pressures, forces, phase, upd, pass, originalTimeStep, frame, phaseLog,
                   integrated, densWritten, forceWritten, ops, call, inits, threw,
                   before>>

\* The catch of animate that leaves paused as it is
UpdateThrowsNoPause ==
    /\ pc \in {"updNext", "density", "forces", "integrate"}
    /\ threw' = TRUE
    /\ pc' = "restore"
    /\ UNCHANGED <<simVars, particleVars, loopVars, frame, phaseLog, integrated,
                   densWritten, forceWritten, moved, pushed, ops, call, inits, before>>

\* animate: particleSystem.update throws, before a pass, in a pass or after
\* the last one, and the catch pauses the simulation; animate goes on after
\* the try statement.
UpdateThrows ==
    /\ pc \in {"updNext", "density", "forces", "integrate"}
    /\ paused' = TRUE
    /\ threw' = TRUE
    /\ pc' = "restore"
    /\ UNCHANGED <<params, objectParams, rigidBodies, objectCounter, particleVars,
                   loopVars, frame, phaseLog, integrated, densWritten, forceWritten,
                   moved, pushed, ops, call, inits, before>>

\* animate: the time step is restored after the particle update.
RestoreTimeStep ==
    /\ pc = "restore"
    /\ params' = [params EXCEPT !.timeStep = originalTimeStep]
    /\ pc' = "next"
    /\ UNCHANGED <<objectParams, paused, rigidBodies, objectCounter, particleVars, loopVars,
                   historyVars>>

\* The steps of a frame.
Frame ==
    \/ AnimateBegin
    \/ AnimatePaused
    \/ NextPhase
    \/ BodyIntegrate
    \/ BodyCollide
    \/ CollisionPass
    \/ ScaleTimeStep
    \/ NextPass
    \/ DensityStep
    \/ ForcesStep
    \/ IntegrateStep
    \/ UpdateThrows
    \/ RestoreTimeStep

(***************************************************************************)
(* FluidSimulator: the operations of the user interface, between frames    *)
(***************************************************************************)
\* An event handler runs between two frames; the model follows MaxOps of them.
UserOperation ==
    /\ pc = "idle"
    /\ ops < MaxOps
    /\ ops' = ops + 1
    /\ UNCHANGED <<frame, phaseLog, integrated, densWritten, forceWritten, moved, pushed,
                   call, threw, before>>

\* dropRigidBody: (Math.random() - 0.5) * 4 on x and z
DropSpots == { Vec(0, 1000, 0), Vec(60, 1000, 0) }

\* dropRigidBody(type), the random position being spot
DropRigidBody(type, spot) ==
    /\ UserOperation
    /\ Len(rigidBodies) < MaxBodies
    /\ objectCounter' = objectCounter + 1
    /\ rigidBodies' = Append(rigidBodies,
           newRigidBody(objectCounter + 1, type, spot, baseSizeOf(type),
                        objectParams.scale, objectParams.rotationX, objectParams.rotationY,
                        objectParams.rotationZ, objectParams.density))
    /\ UNCHANGED <<params, objectParams, paused, particleVars, pc, loopVars, inits>>

\* togglePause
TogglePause ==
    /\ UserOperation
    /\ paused' = ~paused
    /\ UNCHANGED <<params, objectParams, rigidBodies, objectCounter, particleVars, pc,
                   loopVars, inits>>

\* clearObjects
ClearObjects ==
    /\ UserOperation
    /\ rigidBodies' = <<>>
    /\ UNCHANGED <<params, objectParams, paused, objectCounter, particleVars, pc, loopVars,
                   inits>>

\* The sliders of the fluid parameters the model moves, and the values it
\* moves them to (a speed of 2.0 among them).
SliderInputs ==
    { <<"numParticles", n>> : n \in 1 .. MaxParticles } \cup { <<"simulationSpeed", 20>> }

\* A 'particles' slider that resizes the field where it stands
SliderInputInPlace(param, value) ==
    /\ UserOperation
    /\ params' = [params EXCEPT ![param] = value]
    /\ numParticles' = params'.numParticles
    /\ UNCHANGED <<objectParams, paused, rigidBodies, objectCounter, positions, velocities,
                   densities, pressures, forces, pc, loopVars, inits>>

\* setupUI, the 'input' listener of a slider or of its input field:
\* this.params[slider.param] = value
SliderInput(param, value) ==
    /\ UserOperation
    /\ params' = [params EXCEPT ![param] = value]
    /\ UNCHANGED <<objectParams, paused, rigidBodies, objectCounter, particleVars, pc,
                   loopVars, inits>>

\* The presets the user has saved: the parameters saveCustomPreset keeps.
CustomPresets ==
    { [numParticles |-> 1, restDensity |-> 100000, stiffness |-> 2000, viscosity |-> 30,
       timeStep |-> 3],
      [numParticles |-> MaxParticles, restDensity |-> 100000, stiffness |-> 2000,
       viscosity |-> 50, timeStep |-> 5] }

\* applyCustomPreset(presetKey), "Apply all parameters" (params.gravity, which
\* the simulation does not read, is left out).
ApplyCustomPreset(preset) ==
    /\ UserOperation
    /\ params' = [params EXCEPT !.numParticles = preset.numParticles,
                                !.restDensity = preset.restDensity,
                                !.stiffness = preset.stiffness,
                                !.viscosity = preset.viscosity,
                                !.timeStep = preset.timeStep]
    /\ UNCHANGED <<objectParams, paused, rigidBodies, objectCounter, particleVars, pc,
                   loopVars, inits>>

\* reset with the bodies left in the list
ResetKeepsBodies ==
    /\ UserOperation
    /\ objectCounter' = 0
    /\ \E j \in [0 .. (params.numParticles - 1) -> Jitters] :
          /\ numParticles' = params.numParticles
          /\ positions' = [i \in 0 .. (params.numParticles - 1) |->
                              VAdd(latticePosition(i, params.numParticles), j[i].dp)]
          /\ velocities' = [i \in 0 .. (params.numParticles - 1) |-> j[i].dv]
          /\ densities' = [i \in 0 .. (params.numParticles - 1) |-> 0]
          /\ pressures' = [i \in 0 .. (params.numParticles - 1) |-> 0]
          /\ forces' = [i \in 0 .. (params.numParticles - 1) |-> Zero3]
    /\ inits' = Append(inits, initRecord(numParticles', positions', velocities'))
    /\ paused' = FALSE
    /\ UNCHANGED <<params, objectParams, rigidBodies, pc, loopVars>>

\* reset: the bodies are removed and a new ParticleSystem is constructed with
\* params.numParticles; a paused simulation resumes.
Reset ==
    /\ UserOperation
    /\ rigidBodies' = <<>>
    /\ objectCounter' = 0
    /\ \E j \in [0 .. (params.numParticles - 1) -> Jitters] :
          /\ numParticles' = params.numParticles
          /\ positions' = [i \in 0 .. (params.numParticles - 1) |->
                              VAdd(latticePosition(i, params.numParticles), j[i].dp)]
          /\ velocities' = [i \in 0 .. (params.numParticles - 1) |-> j[i].dv]
          /\ densities' = [i \in 0 .. (params.numParticles - 1) |-> 0]
          /\ pressures' = [i \in 0 .. (params.numParticles - 1) |-> 0]
          /\ forces' = [i \in 0 .. (params.numParticles - 1) |-> Zero3]
    /\ inits' = Append(inits, initRecord(numParticles', positions', velocities'))
    /\ paused' = FALSE
    /\ UNCHANGED <<params, objectParams, pc, loopVars>>

Next ==
    \/ Frame
    \/ \E type \in BodyTypes, spot \in DropSpots : DropRigidBody(type, spot)
    \/ TogglePause
    \/ ClearObjects
    \/ Reset
    \/ \E s \in SliderInputs : SliderInput(s[1], s[2])
    \/ \E preset \in CustomPresets : ApplyCustomPreset(preset)

Spec == Init /\ [][Next]_vars

(***************************************************************************)
(* One function run on its own: the rest of the simulator's state          *)
(***************************************************************************)
\* A simulator between frames with n particles and the bodies given; the
\* arrays the function under study does not read are as the constructor
\* leaves them.
CallState(n, bodies) ==
    /\ objectParams = defaultObjectParams
    /\ paused = FALSE
    /\ rigidBodies = bodies
    /\ objectCounter = Len(bodies)
    /\ numParticles = n
    /\ densities = [i \in 0 .. (n - 1) |-> 0]
    /\ pressures = [i \in 0 .. (n - 1) |-> 0]
    /\ forces = [i \in 0 .. (n - 1) |-> Zero3]
    /\ phase = 0
    /\ upd = 0
    /\ idx = 0
    /\ pass = 0
    /\ originalTimeStep = 0
    /\ frame = 0
    /\ phaseLog = <<>>
    /\ integrated = {}
    /\ densWritten = {}
    /\ forceWritten = {}
    /\ moved = {}
    /\ pushed = {}
    /\ ops = 0
    /\ inits = <<>>
    /\ threw = FALSE
    /\ before = <<>>

\* What a call of one function on a particle leaves alone.
ParticleCallFrame ==
    UNCHANGED <<params, objectParams, paused, objectCounter, numParticles, densities,
                pressures, forces, loopVars, historyVars>>

\* What a call of one function on the bodies leaves alone.
BodyCallFrame ==
    UNCHANGED <<params, objectParams, paused, objectCounter, particleVars, loopVars,
                historyVars>>

\* p lies within [boundMin, boundMax] on every axis
InDomain(p, prm) ==
    /\ prm.boundMin.x <= p.x /\ p.x <= prm.boundMax.x
    /\ prm.boundMin.y <= p.y /\ p.y <= prm.boundMax.y
    /\ prm.boundMin.z <= p.z /\ p.z <= prm.boundMax.z

(***************************************************************************)
(* ParticleSystem.handleBoundaryCollision on its own                       *)
(***************************************************************************)
\* The domains of the calls: the one of main.js, and one with boundMin.y =
\* boundMax.y.
BoundaryDomains ==
    { [min |-> Vec(-800, -500, -800), max |-> Vec(800, 1200, 800)],
      [min |-> Vec(-800, -500, -800), max |-> Vec(800, -500, 800)] }

\* The positions of the calls: below, on, between, on and above the walls of
\* each axis.
BoundaryPositions ==
    { Vec(x, y, z) : x \in {-900, -800, 0, 800, 900},
                     y \in {-600, -500, 0, 1200, 1300},
                     z \in {-900, -800, 0, 800, 900} }

BoundaryVelocities == { Vec(x, y, z) : x \in {-100, 0, 100}, y \in {-100, 0, 100}, z \in {-100, 0, 100} }

InitBoundary ==
    /\ \E dom \in BoundaryDomains :
          params = [defaultParams(1) EXCEPT !.boundMin = dom.min, !.boundMax = dom.max]
    /\ \E p \in BoundaryPositions, v \in BoundaryVelocities :
          /\ positions = [i \in 0 .. 0 |-> p]
          /\ velocities = [i \in 0 .. 0 |-> v]
          /\ call = [p |-> p, v |-> v]
    /\ CallState(1, <<>>)
    /\ pc = "handleBoundaryCollision"

\* handleBoundaryCollision(0)
BoundaryCall ==
    /\ pc = "handleBoundaryCollision"
    /\ \E r \in { handleBoundaryCollision(positions[0], velocities[0], params) } :
          /\ positions' = [positions EXCEPT ![0] = r.p]
          /\ velocities' = [velocities EXCEPT ![0] = r.v]
    /\ pc' = "boundaryDone"
    /\ UNCHANGED rigidBodies
    /\ ParticleCallFrame

SpecBoundary == InitBoundary /\ [][BoundaryCall]_vars

\* C1: immediately after handleBoundaryCollision(i), with boundMin <= boundMax
\* on every axis, the particle's position lies within [boundMin, boundMax] on
\* every axis, whatever its position and velocity were before the call.
C1_BoundaryClampsParticle ==
    pc = "boundaryDone" => InDomain(positions[0], params)

\* C1 happens: a particle that was outside the domain on all three axes has
\* been through handleBoundaryCollision and is inside.
C1_Witness ==
    /\ pc = "boundaryDone"
    /\ call.p.x < params.boundMin.x
    /\ call.p.y > params.boundMax.y
    /\ call.p.z > params.boundMax.z
    /\ positions[0] = Vec(params.boundMin.x, params.boundMax.y, params.boundMax.z)

(***************************************************************************)
(* ParticleSystem.handleRigidBodyCollisions on its own: one particle and   *)
(* one body at rest                                                        *)
(***************************************************************************)
\* Where the body of the calls is
CouplingCentre == Vec(100, -200, 50)

\* The offsets of the particle from the body's centre: the centre itself,
\* offsets of whole length 40, 30, 60, 70 and 60, and one far away.
CouplingOffsets ==
    { Vec(0, 0, 0), Vec(24, 32, 0), Vec(-18, -24, 0), Vec(0, 36, 48),
      Vec(70, 0, 0), Vec(0, -60, 0), Vec(300, 0, 0) }

CouplingVelocities == { Vec(0, 0, 0), Vec(-50, -50, 0), Vec(100, 0, 0), Vec(0, 30, -40) }

InitCoupling ==
    /\ params = defaultParams(1)
    /\ \E type \in BodyTypes, d \in CouplingOffsets, v \in CouplingVelocities :
          /\ positions = [i \in 0 .. 0 |-> VAdd(CouplingCentre, d)]
          /\ velocities = [i \in 0 .. 0 |-> v]
          /\ call = [p |-> VAdd(CouplingCentre, d), v |-> v]
          /\ CallState(1, << newRigidBody(1, type, CouplingCentre, baseSizeOf(type),
                                          defaultObjectParams.scale, 0, 0, 0,
                                          defaultObjectParams.density) >>)
    /\ pc = "handleRigidBodyCollisions"

\* handleRigidBodyCollisions(0, rigidBodies)
CouplingCall ==
    /\ pc = "handleRigidBodyCollisions"
    /\ \E r \in { handleRigidBodyCollisions(positions[0], velocities[0], rigidBodies,
                                            params) } :
          /\ positions' = [positions EXCEPT ![0] = r.p]
          /\ velocities' = [velocities EXCEPT ![0] = r.v]
          /\ rigidBodies' = r.bodies
    /\ pc' = "couplingDone"
    /\ ParticleCallFrame

SpecCoupling == InitCoupling /\ [][CouplingCall]_vars

\* C8: for a sphere at rest and any particle overlapping it (distance from
\* the centre less than the radius, the centre itself included), after the
\* coupling pass the particle is at a distance from the centre not less than
\* the radius and its velocity along the outward normal is not negative.
C8_SpherePushesParticleOut ==
    (/\ pc = "couplingDone"
     /\ rigidBodies[1].type = "sphere"
     /\ VLength(VSub(call.p, rigidBodies[1].position)) < rigidBodies[1].size.x)
    => /\ VLength(VSub(positions[0], rigidBodies[1].position)) >= rigidBodies[1].size.x
       /\ VDotRaw(velocities[0], VSub(positions[0], rigidBodies[1].position)) >= 0

\* C8 away from the centre: the same statement for the particles that overlap
\* the sphere but are not at its centre.
C8_ExceptAtCentre ==
    call.p # rigidBodies[1].position => C8_SpherePushesParticleOut

\* C8 away from the centre happens: a particle inside the sphere and moving
\* inward ends on the sphere's surface, moving outward.
C8_ExceptAtCentreWitness ==
    /\ pc = "couplingDone"
    /\ rigidBodies[1].type = "sphere"
    /\ call.p = VAdd(rigidBodies[1].position, Vec(24, 32, 0))
    /\ call.v = Vec(-50, -50, 0)
    /\ positions[0] = VAdd(rigidBodies[1].position, Vec(48, 64, 0))
    /\ VDotRaw(velocities[0], Vec(48, 64, 0)) > 0

\* The types the claim calls box-like
BoxLikeTypes == {"cube", "hollow-cube"}

\* The sphere test of the coupling pass: p is inside the sphere of radius
\* size.x and not at its centre.
insideSphereTest(p, body) ==
    /\ p # body.position
    /\ VLength(VSub(p, body.position)) < body.size.x

\* The axis-aligned interior test of the coupling pass
insideBoxTest(p, body) ==
    /\ 2 * Abs(p.x - body.position.x) < body.size.x
    /\ 2 * Abs(p.y - body.position.y) < body.size.y
    /\ 2 * Abs(p.z - body.position.z) < body.size.z

\* p is inside the body by the test the claim assigns to its type (for the
\* boat, which it names in neither group, by both tests).
insideBody(p, body) ==
    IF body.type \in BoxLikeTypes THEN insideBoxTest(p, body)
    ELSE IF body.type = "boat" THEN insideSphereTest(p, body) /\ insideBoxTest(p, body)
    ELSE insideSphereTest(p, body)

\* C9: for every type that can be dropped, a particle inside the body is
\* pushed out by the coupling pass; no type is left without a response.
C9_EveryTypePushesOut ==
    (pc = "couplingDone" /\ insideBody(call.p, rigidBodies[1]))
    => ~insideBody(positions[0], rigidBodies[1])

\* C9 for the types the code handles: sphere, cylinder, torus and cube.
C9_HandledTypesPushOut ==
    rigidBodies[1].type \in {"sphere", "cylinder", "torus", "cube"}
    => C9_EveryTypePushesOut

(***************************************************************************)
(* RigidBody.checkObjectCollisions on its own: two spheres head-on         *)
(***************************************************************************)
\* Where the second sphere of the calls is
PairCentre == Vec(0, 300, 0)

\* The directions of the line of centres, from the second sphere to the
\* first: the three axes and a diagonal, as unit vectors num / den.
PairDirections ==
    { [num |-> Vec(1, 0, 0), den |-> 1], [num |-> Vec(0, 1, 0), den |-> 1],
      [num |-> Vec(0, 0, -1), den |-> 1], [num |-> Vec(3, 4, 0), den |-> 5] }

\* The distances between the centres (the radius is 80 at scale 1.0 and 160
\* at scale 2.0, so the spheres of 200 apart overlap at the larger scale only)
PairDistances == {50, 100, 150, 200}

\* The approach speeds u
PairSpeeds == {25, 50, 100, 200}

PairScales == {100, 200}

PairDensities == {500, 2700}

\* A sphere of the calls, with the velocity given
movingSphere(id, position, velocity, scale, density) ==
    [newRigidBody(id, "sphere", position, baseSizeOf("sphere"), scale, 0, 0, 0, density)
       EXCEPT !.velocity = velocity]

InitPair ==
    /\ params = defaultParams(1)
    /\ positions = [i \in 0 .. 0 |-> latticePosition(0, 1)]
    /\ velocities = [i \in 0 .. 0 |-> Zero3]
    /\ \E n \in PairDirections, d \in PairDistances, u \in PairSpeeds,
          scale \in PairScales, density \in PairDensities :
          /\ call = [n |-> n, u |-> u, distance |-> d]
          /\ CallState(1, << movingSphere(1, VAdd(PairCentre, NScale(n, d)),
                                          NScale(n, -u), scale, density),
                             movingSphere(2, PairCentre, NScale(n, u), scale, density) >>)
    /\ pc = "checkObjectCollisions"

\* rigidBodies[0].checkObjectCollisions(rigidBodies)
PairCall ==
    /\ pc = "checkObjectCollisions"
    /\ rigidBodies' = checkObjectCollisions(1, rigidBodies)
    /\ pc' = "pairDone"
    /\ BodyCallFrame

SpecPair == InitPair /\ [][PairCall]_vars

\* C10: two spheres of equal radius and density that overlap while approaching
\* head-on with velocities -u and +u along the line of centres leave one
\* checkObjectCollisions with velocities of magnitude 0.4 * u on that line,
\* opposite in sign, each directed away from the other sphere.
C10_HeadOnRestitution ==
    (pc = "pairDone" /\ call.distance < 2 * rigidBodies[1].size.x)
    => /\ rigidBodies[1].velocity = NScale(call.n, Mul(call.u, 4, 10))
       /\ rigidBodies[2].velocity = NScale(call.n, -Mul(call.u, 4, 10))

\* C10 happens: spheres of radius 0.8 at 1.0 from each other on the diagonal,
\* approaching at 0.5 each, have been through checkObjectCollisions and part
\* at 0.2 each.
C10_Witness ==
    /\ pc = "pairDone"
    /\ call = [n |-> [num |-> Vec(3, 4, 0), den |-> 5], u |-> 50, distance |-> 100]
    /\ rigidBodies[1].size.x = 80
    /\ rigidBodies[1].velocity = Vec(12, 16, 0)
    /\ rigidBodies[2].velocity = Vec(-12, -16, 0)

(***************************************************************************)
(* RigidBody.update on its own                                             *)
(***************************************************************************)
\* The domains of the calls: the one of main.js and a narrow one
BodyDomains ==
    { [min |-> Vec(-800, -500, -800), max |-> Vec(800, 1200, 800)],
      [min |-> Vec(-100, -500, -100), max |-> Vec(100, 1200, 100)] }

\* Where the body is when update is called: inside the domain or outside it
\* on any side, as the other bodies may have left it.
BodyPositions ==
    { Vec(x, y, z) : x \in {-900, 0, 790}, y \in {-600, -430, 1250}, z \in {0, 700, 850} }

BodyVelocities == { Vec(0, 0, 0), Vec(120, -300, -80) }

\* objectParams.rotationZ of the body, in degrees
BodyRotations == {0, 30}

BodyScales == {100, 200}

\* The other bodies of the call: none, or a sphere overlapping the body
otherBodies(position) ==
    { <<>>, << movingSphere(2, VAdd(position, Vec(60, 0, 0)), Vec(-100, 0, 0), 100, 2700) >> }

InitBody ==
    /\ \E dom \in BodyDomains :
          params = [defaultParams(1) EXCEPT !.boundMin = dom.min, !.boundMax = dom.max]
    /\ positions = [i \in 0 .. 0 |-> latticePosition(0, 1)]
    /\ velocities = [i \in 0 .. 0 |-> Zero3]
    /\ \E type \in BodyTypes, position \in BodyPositions, velocity \in BodyVelocities,
          rz \in BodyRotations, scale \in BodyScales :
          \E others \in otherBodies(position) :
             /\ CallState(1, << [newRigidBody(1, type, position, baseSizeOf(type), scale,
                                              0, 0, rz, defaultObjectParams.density)
                                   EXCEPT !.velocity = velocity] >> \o others)
    /\ call = [bodies |-> rigidBodies]
    /\ pc = "update"

\* rigidBodies[0].update(dt, gravity, boundMin, boundMax, damping, fluidDensity,
\* rigidBodies), with the arguments animate passes
BodyCall ==
    /\ pc = "update"
    /\ rigidBodies' = update(1, rigidBodies, scaledTimeStep, objectParams.gravity,
                             params.boundMin, params.boundMax, params.restDensity)
    /\ pc' = "updateDone"
    /\ BodyCallFrame

SpecBody == InitBody /\ [][BodyCall]_vars

\* The body of the call as update has it when its boundary collisions begin:
\* after the position update, the collisions with the others and the rotation.
bodyAtClamp ==
    updateRotation(
        checkObjectCollisions(1,
            [call.bodies EXCEPT ![1] = updateIntegrate(@, scaledTimeStep,
                                                       objectParams.gravity,
                                                       params.restDensity)])[1],
        scaledTimeStep)

\* The extent update clamps the body of the call with
extentAtClamp == boundaryExtent(bodyAtClamp)

\* The domain is at least twice the extent wide on every axis
domainHolds(ext, prm) ==
    /\ prm.boundMax.x - prm.boundMin.x >= 2 * ext.x
    /\ prm.boundMax.y - prm.boundMin.y >= 2 * ext.y
    /\ prm.boundMax.z - prm.boundMin.z >= 2 * ext.z

\* p lies within [boundMin + ext, boundMax - ext] on every axis
InDomainBy(p, ext, prm) ==
    /\ prm.boundMin.x + ext.x <= p.x /\ p.x <= prm.boundMax.x - ext.x
    /\ prm.boundMin.y + ext.y <= p.y /\ p.y <= prm.boundMax.y - ext.y
    /\ prm.boundMin.z + ext.z <= p.z /\ p.z <= prm.boundMax.z - ext.z

\* C3: when RigidBody.update returns, for a domain at least twice the body's
\* extent wide on every axis, the body's position lies within
\* [boundMin + extent, boundMax - extent], hence within [boundMin, boundMax],
\* on every axis, for every type and wherever the body was before the call.
C3_UpdateClampsBody ==
    (pc = "updateDone" /\ domainHolds(extentAtClamp, params))
    => /\ InDomainBy(rigidBodies[1].position, extentAtClamp, params)
       /\ InDomain(rigidBodies[1].position, params)

\* C3 happens: a box that was above the top of the domain and beyond a side
\* wall, overlapping another body, has been through update and is inside.
C3_Witness ==
    /\ pc = "updateDone"
    /\ call.bodies[1].type = "hollow-cube"
    /\ Len(call.bodies) = 2
    /\ call.bodies[1].position.y > params.boundMax.y
    /\ call.bodies[1].position.z > params.boundMax.z
    /\ domainHolds(extentAtClamp, params)
    /\ InDomain(rigidBodies[1].position, params)

(***************************************************************************)
(* The order of a frame and of a step of the particle system               *)
(***************************************************************************)
\* Where the program is while a body's update runs
BodyUpdatePcs == {"bodyIntegrate", "bodyCollide"}

\* Where the program is while ParticleSystem.update runs, from the scaling of
\* the time step to its restoration
ParticleUpdatePcs == {"scale", "updNext", "density", "forces", "integrate", "restore"}

\* The phases of the running frame began in the order given: each phase runs
\* after those before it in order and before those after it, and a frame that
\* has ended has run them all.
phasesRunInOrder(order) ==
    /\ pc \in BodyUpdatePcs =>
          \E k \in 1 .. Len(order) : order[k] = "bodies" /\ phaseLog = SubSeq(order, 1, k)
    /\ pc = "pass" =>
          \E k \in 1 .. Len(order) : order[k] = "passes" /\ phaseLog = SubSeq(order, 1, k)
    /\ pc \in ParticleUpdatePcs =>
          \E k \in 1 .. Len(order) : order[k] = "particles" /\ phaseLog = SubSeq(order, 1, k)
    /\ (pc = "idle" /\ phaseLog # <<>>) => phaseLog = order

\* C4 as amended: in every unpaused frame the simulation step first runs each
\* rigid body's update, then the extra rigid-rigid collision correction passes,
\* then the particle pipeline (ParticleSystem.update), in that order.
C4_BodiesPassesParticles ==
    phasesRunInOrder(<<"bodies", "passes", "particles">>)

\* C4 as stated: in every unpaused frame the simulation step first runs the
\* particle pipeline, then each rigid body's update, then the extra collision
\* correction passes.
C4_ParticlesFirst ==
    phasesRunInOrder(<<"particles", "bodies", "passes">>)

\* C4 happens: a frame with two bodies has ended; their updates and the
\* particles' integration have run.
C4_Witness ==
    /\ pc = "idle"
    /\ frame = 1
    /\ Len(rigidBodies) = 2
    /\ integrated = {1, 2}
    /\ moved = Particles
    /\ phaseLog = <<"bodies", "passes", "particles">>

\* C5: in every frame with two or more rigid bodies, the position update of
\* every body for the frame is completed before any checkObjectCollisions
\* modifies any body in the frame: wherever a call of checkObjectCollisions is
\* about to modify a body, every body has had its position update.
C5_IntegrateBeforeCollisions ==
    (/\ pc \in {"bodyCollide", "pass"}
     /\ Len(rigidBodies) >= 2
     /\ checkObjectCollisions(idx, rigidBodies) # rigidBodies)
    => integrated = 1 .. Len(rigidBodies)

\* C6: in every ParticleSystem.update the density pass has written the density
\* and pressure of all particles before the force pass reads any, and the
\* force pass has written the force of all particles before the integration
\* pass reads any.
C6_PassBarrier ==
    /\ pc = "forces" => densWritten = Particles
    /\ pc = "integrate" => (densWritten = Particles /\ forceWritten = Particles)

\* C6 happens: with two particles, the integration pass is at the second one
\* and the first has been moved.
C6_Witness ==
    /\ pc = "integrate"
    /\ numParticles = 2
    /\ idx = 1
    /\ moved = {0}
    /\ forceWritten = {0, 1}
    /\ densWritten = {0, 1}

(***************************************************************************)
(* Frames of a running simulation: the simulator between two frames, some  *)
(* time after the bodies were dropped                                      *)
(***************************************************************************)
\* A body of the running simulation
movingBody(id, type, position, velocity) ==
    [newRigidBody(id, type, position, baseSizeOf(type), defaultObjectParams.scale,
                  0, 0, 0, defaultObjectParams.density)
       EXCEPT !.velocity = velocity]

\* The bodies between two frames: a sphere that slides on the floor while
\* another is about to land on it; a sphere that slides along a wall while
\* another is about to run into it; a sphere and a cube falling through the
\* fluid; one falling sphere.  Every body is where its own update leaves it,
\* within the domain by its extent, and no two bodies overlap (the pairs touch).
RunningBodies ==
    { << movingBody(1, "sphere", Vec(0, -420, 0), Vec(300, 0, 0)),
         movingBody(2, "sphere", Vec(0, -260, 0), Vec(0, -500, 0)) >>,
      << movingBody(1, "sphere", Vec(-720, -420, 0), Vec(0, 0, 300)),
         movingBody(2, "sphere", Vec(-560, -420, 0), Vec(-500, 0, 0)) >>,
      << movingBody(1, "sphere", Vec(0, 0, 0), Vec(0, -200, 0)),
         movingBody(2, "cube", Vec(400, 0, 0), Vec(0, -200, 0)) >>,
      << movingBody(1, "sphere", Vec(0, 0, 0), Vec(0, -200, 0)) >> }

\* The particles between two frames: on the floor, on a wall, in the fluid,
\* none of them inside a body (the ones near a body touch its surface).
RunningPositions ==
    { Vec(0, -500, 0), Vec(-800, -420, 0), Vec(0, -80, 0), Vec(400, -75, 0),
      Vec(300, 200, 300) }

RunningVelocities == { Vec(0, 0, 0), Vec(0, -400, 0) }

\* The state between two frames of a running simulation.  The densities,
\* pressures and forces of the step before are not read before the next step
\* writes them.
InitRunning ==
    /\ params = defaultParams(MaxParticles)
    /\ \E bodies \in RunningBodies :
          CallState(MaxParticles, bodies)
    /\ \E p \in [0 .. (MaxParticles - 1) -> RunningPositions],
          v \in [0 .. (MaxParticles - 1) -> RunningVelocities] :
          /\ positions = p
          /\ velocities = v
    /\ call = <<>>
    /\ pc = "idle"

\* The steps of a frame of the running simulation
RunningFrame ==
    \/ AnimateBegin
    \/ NextPhase
    \/ BodyIntegrate
    \/ BodyCollide
    \/ CollisionPass
    \/ ScaleTimeStep
    \/ NextPass
    \/ DensityStep
    \/ ForcesStep
    \/ IntegrateStep
    \/ RestoreTimeStep

SpecRunning == InitRunning /\ [][RunningFrame]_vars

\* C2: at the end of every ParticleSystem.update, every particle that was
\* integrated in the step lies within [boundMin, boundMax] on every axis: the
\* push-out by the rigid bodies, applied after the boundary clamp, never
\* leaves a particle outside the domain.
C2_ParticlesStayInDomain ==
    pc = "restore" => \A i \in moved : InDomain(positions[i], params)

\* C7: ParticleSystem.update, handleRigidBodyCollisions included, leaves every
\* rigid body as it was (position, velocity, angular velocity, rotation and
\* size): no step of the update changes rigidBodies.
C7_CouplingIsOneWay ==
    [][(pc \in ParticleUpdatePcs) => (rigidBodies' = rigidBodies)]_vars

\* C7 happens: an update has run to its end in which a body has displaced a
\* particle.
C7_Witness ==
    /\ pc = "restore"
    /\ pushed # {}
    /\ moved = Particles
    /\ rigidBodies # <<>>

(***************************************************************************)
(* ParticleSystem.computeDensity and computeForces on their own            *)
(***************************************************************************)
\* The positions of the three particles of the calls: at the origin, at 0.3
\* from it on an axis and off the axes, at h from it, at less than h from
\* the second, and far from all.
ForcePositions ==
    { Vec(0, 0, 0), Vec(30, 0, 0), Vec(-18, -24, 0), Vec(10, 20, 20), Vec(50, 0, 0),
      Vec(60, 0, 0), Vec(0, 300, 0) }

ForceVelocities == { Vec(0, 0, 0), Vec(20, -100, -15) }

InitForces ==
    /\ params = defaultParams(3)
    /\ CallState(3, <<>>)
    /\ positions \in [0 .. 2 -> ForcePositions]
    /\ velocities \in [0 .. 2 -> ForceVelocities]
    /\ call = <<>>
    /\ pc = "computeForces"

\* this.computeDensity(); this.computeForces()
ForcesCall ==
    /\ pc = "computeForces"
    /\ \E dens \in { computeDensity(positions, numParticles, params) } :
       \E pres \in { computePressure(dens, numParticles, params) } :
          /\ densities' = dens
          /\ pressures' = pres
          /\ forces' = computeForces(positions, velocities, dens, pres, numParticles, params)
    /\ pc' = "forcesDone"
    /\ UNCHANGED <<simVars, numParticles, positions, velocities, loopVars, historyVars>>

SpecForces == InitForces /\ [][ForcesCall]_vars

\* The distance between particles i and j
separation(i, j) == VLength(VSub(positions[i], positions[j]))

\* C11: in the force pass, for every pair of distinct particles i and j at a
\* distance 0 < r < h, the pressure term j adds to the accumulator of i is the
\* exact negation, on every axis, of the term i adds to the accumulator of j.
C11_PressureTermsOpposite ==
    pc = "forcesDone" =>
        \A i \in Particles : \A j \in Particles :
            (i # j /\ separation(i, j) > 0 /\ separation(i, j) < params.smoothingRadius)
            => pressureForce(i, j, positions, densities, pressures, params)
               = VNeg(pressureForce(j, i, positions, densities, pressures, params))

\* C11 happens: two particles at 0.3 from each other, off the axes, with
\* different densities (the third is near one of them only), have been through
\* the force pass and their pressure terms are not zero.
C11_Witness ==
    /\ pc = "forcesDone"
    /\ positions[0] = Vec(0, 0, 0)
    /\ positions[1] = Vec(-18, -24, 0)
    /\ positions[2] = Vec(30, 0, 0)
    /\ densities[0] # densities[1]
    /\ pressureForce(0, 1, positions, densities, pressures, params).x # 0
    /\ pressureForce(0, 1, positions, densities, pressures, params).y # 0

\* Particle i has no other particle within the smoothing radius
isolated(i) ==
    \A j \in Particles \ {i} : ~(separation(i, j) < params.smoothingRadius)

\* C12: a particle with no other particle within h has, after the density and
\* force passes, the density mass * W(0, h) and no pressure or viscosity
\* force: its force is (0, fluidGravity * density, 0), and force / density, its
\* acceleration in the integration pass, is fluidGravity on y and 0 elsewhere.
C12_IsolatedParticle ==
    pc = "forcesDone" =>
        \A i \in Particles :
            isolated(i) =>
                /\ densities[i] = Mul(params.particleMass,
                                      poly6Kernel(0, params.smoothingRadius), One)
                /\ forces[i] = Vec(0, Mul(densities[i], params.fluidGravity, One), 0)
                /\ Mul(forces[i].y, One, densities[i]) = params.fluidGravity

\* C12 happens: two moving particles within h of each other and a third far
\* from both, which has the density of its own term, 12.53, and the force of
\* gravity alone.
C12_Witness ==
    /\ pc = "forcesDone"
    /\ positions[0] = Vec(0, 0, 0)
    /\ positions[1] = Vec(30, 0, 0)
    /\ positions[2] = Vec(0, 300, 0)
    /\ velocities[2] = Vec(20, -100, -15)
    /\ ~isolated(0)
    /\ isolated(2)
    /\ densities[2] = 1253
    /\ forces[2] = Vec(0, -12279, 0)
    /\ forces[0].x # 0

(***************************************************************************)
(* The SPH kernels on their own                                            *)
(***************************************************************************)
\* The calls: a separation (rx, ry, rz) of length 0, below h, exactly h (as
\* (50, 0, 0) and (30, 40, 0) for h = 0.5, (25, 0, 0) and (15, 20, 0) for
\* h = 0.25) and above h.
InitKernel ==
    /\ \E h \in {25, 50} : params = [defaultParams(1) EXCEPT !.smoothingRadius = h]
    /\ CallState(1, <<>>)
    /\ positions = [i \in 0 .. 0 |-> Zero3]
    /\ velocities = [i \in 0 .. 0 |-> Zero3]
    /\ \E rx \in {-30, -15, 0, 15, 20, 25, 30, 40, 50} :
       \E ry \in {-30, -15, 0, 15, 20, 25, 30, 40, 50} :
       \E rz \in {-30, -15, 0, 15, 20, 25, 30, 40, 50} :
          call = [d |-> Vec(rx, ry, rz)]
    /\ pc = "kernels"

\* The three kernels are evaluated as computeDensity and computeForces do,
\* with r = Math.sqrt(dx * dx + dy * dy + dz * dz).
KernelCall ==
    /\ pc = "kernels"
    /\ \E r \in { VLength(call.d) } :
          call' = [d |-> call.d,
                   W |-> poly6Kernel(r, params.smoothingRadius),
                   grad |-> spikyGradient(call.d, params.smoothingRadius),
                   lap |-> viscosityLaplacian(r, params.smoothingRadius)]
    /\ pc' = "kernelsDone"
    /\ UNCHANGED <<simVars, particleVars, loopVars, frame, phaseLog, integrated,
                   densWritten, forceWritten, moved, pushed, ops, inits, threw, before>>

SpecKernel == InitKernel /\ [][KernelCall]_vars

\* C13: poly6Kernel, spikyGradient and viscosityLaplacian are 0 (the zero
\* vector for the gradient) for every separation r > h and also at r = h, and
\* spikyGradient is the zero vector at r = 0.
C13_KernelsVanish ==
    pc = "kernelsDone" =>
        /\ VDotRaw(call.d, call.d) >= params.smoothingRadius * params.smoothingRadius
           => (call.W = 0 /\ call.grad = Zero3 /\ call.lap = 0)
        /\ call.d = Zero3 => call.grad = Zero3

\* C13 happens: the kernels have been evaluated at a separation off the axes
\* whose length is exactly h.
C13_Witness ==
    /\ pc = "kernelsDone"
    /\ params.smoothingRadius = 50
    /\ call.d = Vec(30, 40, 0)
    /\ call.W = 0
    /\ call.grad = Zero3
    /\ call.lap = 0

(***************************************************************************)
(* The session: initialisation, failure of a step, the particle count,     *)
(* the identity of the bodies                                              *)
(***************************************************************************)
\* C14: re-initialising the particle field with the same particle count and
\* configuration reproduces the initial positions and velocities of the
\* initialisation before: any two initialisations of the same count have
\* produced the same arrays.
C14_ReinitialisationReproduces ==
    \A a \in 1 .. Len(inits) : \A b \in 1 .. Len(inits) :
        inits[a].n = inits[b].n
        => /\ inits[a].positions = inits[b].positions
           /\ inits[a].velocities = inits[b].velocities

(***************************************************************************)
(* One frame run twice from the same state                                 *)
(***************************************************************************)
\* The states of SpecRunning; nothing has been run again yet.
InitReplay ==
    /\ params = defaultParams(MaxParticles)
    /\ \E bodies \in RunningBodies :
          CallState(MaxParticles, bodies)
    /\ \E p \in [0 .. (MaxParticles - 1) -> RunningPositions],
          v \in [0 .. (MaxParticles - 1) -> RunningVelocities] :
          /\ positions = p
          /\ velocities = v
    /\ call = [replayed |-> FALSE]
    /\ pc = "idle"

\* After a frame, the state the frame began in is put back (the particle
\* arrays, the bodies and the parameters) and animate runs on it once more;
\* what the first run produced is kept in call.
Replay ==
    /\ pc = "idle"
    /\ frame >= 1
    /\ ~call.replayed
    /\ call' = [replayed |-> TRUE, frame |-> frame + 1,
                first |-> <<simVars, particleVars>>]
    /\ params' = [params EXCEPT !.timeStep = before.timeStep]
    /\ rigidBodies' = before.rigidBodies
    /\ positions' = before.positions
    /\ velocities' = before.velocities
    /\ densities' = before.densities
    /\ pressures' = before.pressures
    /\ forces' = before.forces
    /\ pc' = "next"
    /\ phase' = 0
    /\ frame' = frame + 1
    /\ phaseLog' = <<>>
    /\ integrated' = {}
    /\ UNCHANGED <<objectParams, paused, objectCounter, numParticles, upd, idx, pass,
                   originalTimeStep, densWritten, forceWritten, moved, pushed, ops, inits,
                   threw, before>>

SpecReplay == InitReplay /\ [][RunningFrame \/ Replay]_vars

MaxSteps == 2

\* A field of three particles of mass 0.04, whose own density term is 0.50:
\* a particle reaches the density 1.0 with two neighbours close enough.  The
\* rest density and the stiffness are low (sliders), h is 0.5.
InitFloor ==
    /\ params = [defaultParams(3) EXCEPT !.particleMass = 4, !.restDensity = 100,
                                         !.stiffness = 20]
    /\ CallState(3, <<>>)
    /\ positions \in [0 .. 2 -> { Vec(0, 0, 0), Vec(21, 0, 0), Vec(27, 0, 0),
                                  Vec(0, 300, 0) }]
    /\ velocities \in [0 .. 2 -> { Vec(0, 0, 0), Vec(-400, 0, 0) }]
    /\ call = [log |-> <<>>]
    /\ pc = "particleUpdate"

\* particleSystem.update(renderer, rigidBodies): the three passes.  The
\* history keeps the arrays the step began with and the densities and forces
\* it computed.
FloorCall ==
    /\ pc = "particleUpdate"
    /\ Len(call.log) < MaxSteps
    /\ \E dens \in { computeDensity(positions, numParticles, params) } :
       \E pres \in { computePressure(dens, numParticles, params) } :
       \E frc \in { computeForces(positions, velocities, dens, pres, numParticles, params) } :
       \E res \in { integrate(positions, velocities, frc, dens, numParticles,
                              rigidBodies, params) } :
          /\ densities' = dens
          /\ pressures' = pres
          /\ forces' = frc
          /\ positions' = [i \in Particles |-> res[i].p]
          /\ velocities' = [i \in Particles |-> res[i].v]
          /\ call' = [log |-> Append(call.log,
                                     [positions |-> positions, velocities |-> velocities,
                                      densities |-> dens, forces |-> frc])]
    /\ UNCHANGED <<simVars, numParticles, pc, loopVars, frame, phaseLog, integrated,
                   densWritten, forceWritten, moved, pushed, ops, inits, threw, before>>

SpecFloor == InitFloor /\ [][FloorCall]_vars

\* The position and velocity of particle i when step k of the history ended
afterStep(k, i) ==
    IF k < Len(call.log)
    THEN [p |-> call.log[k + 1].positions[i], v |-> call.log[k + 1].velocities[i]]
    ELSE [p |-> positions[i], v |-> velocities[i]]

\* Step k of the history left particle i where and as it was
leftAlone(k, i) ==
    afterStep(k, i) = [p |-> call.log[k].positions[i], v |-> call.log[k].velocities[i]]

\* Step k of the history integrated particle i
integratedIn(k, i) ==
    \E r \in { integrateParticle(call.log[k].positions[i], call.log[k].velocities[i],
                                 call.log[k].forces[i], call.log[k].densities[i],
                                 rigidBodies, params) } :
        afterStep(k, i) = [p |-> r.p, v |-> r.v]

\* C16: in any step, a particle whose density is below the floor 1.0 is left
\* unintegrated: the step changes neither its position nor its velocity, it
\* stays in the arrays, its term is in the density of every neighbour within
\* h, and a step in which its recomputed density reaches the floor integrates
\* it, whatever the step before did.
C16_BelowFloorIsSkipped ==
    \A k \in 1 .. Len(call.log) : \A i \in Particles :
        /\ call.log[k].densities[i] < One =>
              /\ leftAlone(k, i)
              /\ DOMAIN positions = DOMAIN call.log[k].positions
              /\ \A j \in Particles \ {i} :
                    VLength(VSub(call.log[k].positions[i], call.log[k].positions[j]))
                        < params.smoothingRadius
                    => call.log[k].densities[j]
                          >= Mul(params.particleMass,
                                 poly6Kernel(0, params.smoothingRadius)
                                 + poly6Kernel(VLength(VSub(call.log[k].positions[i],
                                                            call.log[k].positions[j])),
                                               params.smoothingRadius), One)
        /\ call.log[k].densities[i] >= One => integratedIn(k, i)

\* C16 happens: a particle was below the floor in the first step, which left
\* it alone while its two neighbours moved towards it, and the second step
\* found its density at the floor or above and moved it.
C16_Witness ==
    /\ Len(call.log) = 2
    /\ \E i \in Particles :
          /\ call.log[1].densities[i] < One
          /\ leftAlone(1, i)
          /\ call.log[2].densities[i] >= One
          /\ ~leftAlone(2, i)
          /\ \A j \in Particles \ {i} : ~leftAlone(1, j)


(***************************************************************************)
(* A frame whose particle update throws                                    *)
(***************************************************************************)
\* C17: when ParticleSystem.update throws in a frame, the catch sets paused;
\* the step that follows the try statement puts params.timeStep back to its
\* value before the frame; and as long as the simulation stays paused after
\* the throw, no step of a frame begins a new frame or changes the rigid
\* bodies or the particle arrays.
C17_ThrowPausesAndRestores ==
    [][ /\ (threw' /\ ~threw) => paused'
        /\ (threw /\ pc = "restore") => params'.timeStep = before.timeStep
        /\ (threw /\ paused /\ ops' = ops)
               => /\ paused'
                  /\ frame' = frame
                  /\ UNCHANGED <<rigidBodies, particleVars>> ]_vars

\* A frame run at speed 2.0 has thrown in update and has ended: the simulation
\* is paused between frames and the time step is the one before the frame.
C17_Witness ==
    /\ threw
    /\ paused
    /\ pc = "idle"
    /\ frame < MaxFrames
    /\ params.simulationSpeed = 20
    /\ params.timeStep = before.timeStep
    /\ params.timeStep # scaledTimeStep


\* C18: when the particle update of a frame has thrown, the rigid bodies and
\* the particle arrays after the try statement are those the frame began with.
C18_FailedFrameLeavesNoTrace ==
    (threw /\ pc = "next")
    => /\ rigidBodies = before.rigidBodies
       /\ positions = before.positions
       /\ velocities = before.velocities
       /\ densities = before.densities
       /\ pressures = before.pressures
       /\ forces = before.forces


(***************************************************************************)
(* The session: the size of the field                                      *)
(***************************************************************************)
\* C19: the five particle arrays always have numParticles entries, and a step
\* that changes numParticles or the length of an array is FluidSimulator.reset,
\* after which numParticles is params.numParticles; frames, sliders, presets,
\* drops, clears and pauses leave the count and the lengths alone.
C19_CountChangesOnlyThroughReset ==
    /\ [](/\ DOMAIN positions = Particles
          /\ DOMAIN velocities = Particles
          /\ DOMAIN densities = Particles
          /\ DOMAIN pressures = Particles
          /\ DOMAIN forces = Particles)
    /\ [][ (\/ numParticles' # numParticles
            \/ DOMAIN positions' # DOMAIN positions
            \/ DOMAIN velocities' # DOMAIN velocities
            \/ DOMAIN densities' # DOMAIN densities
            \/ DOMAIN pressures' # DOMAIN pressures
            \/ DOMAIN forces' # DOMAIN forces)
           => (Reset /\ numParticles' = params.numParticles) ]_vars

\* The 'particles' slider or a preset has asked for another count, and a whole
\* frame has since run on the field as it was constructed.
C19_Witness ==
    /\ params.numParticles # numParticles
    /\ pc = "idle"
    /\ frame >= 1
    /\ ~threw
    /\ moved = Particles
    /\ DOMAIN positions = Particles


(***************************************************************************)
(* The session: the identifiers of the rigid bodies                        *)
(***************************************************************************)
\* The state after a session of dropped drops, a clearObjects and kept more
\* drops, between two frames.
InitObjects ==
    /\ params = defaultParams(1)
    /\ InitParticles(1, [i \in 0 .. 0 |-> [dp |-> Zero3, dv |-> Zero3]])
    /\ inits = <<initRecord(numParticles, positions, velocities)>>
    /\ objectParams = defaultObjectParams
    /\ paused = FALSE
    /\ \E dropped \in 0 .. MaxBodies, kept \in 0 .. 1 :
          /\ objectCounter = dropped + kept
          /\ rigidBodies = [b \in 1 .. kept |->
                 newRigidBody(dropped + b, "sphere", Vec(0, 1000, 0), baseSizeOf("sphere"),
                              objectParams.scale, objectParams.rotationX,
                              objectParams.rotationY, objectParams.rotationZ,
                              objectParams.density)]
    /\ InitLoop
    /\ InitHistory

\* The operations that add and remove bodies.
ObjectOperation ==
    \/ \E type \in BodyTypes, spot \in DropSpots : DropRigidBody(type, spot)
    \/ ClearObjects
    \/ Reset

SpecObjects == InitObjects /\ [][ObjectOperation]_vars

\* C20: after any sequence of dropRigidBody, clearObjects and reset, two
\* bodies at different places of the list have different ids.
C20_LiveIdsAreDistinct ==
    \A a \in 1 .. Len(rigidBodies) : \A b \in 1 .. Len(rigidBodies) :
        a # b => rigidBodies[a].id # rigidBodies[b].id

\* Two bodies dropped after a clearObjects that left the counter at 2: they
\* carry the ids 3 and 4.
C20_Witness ==
    /\ Len(rigidBodies) = 2
    /\ ops = 2
    /\ objectCounter = 4
    /\ rigidBodies[1].id = 3
    /\ rigidBodies[2].id = 4


(***************************************************************************)
(* RigidBody.checkObjectCollisions on its own: one pair, either initiator  *)
(***************************************************************************)
\* The distances between the centres of the calls: coincident, overlapping by
\* more than 0.1, overlapping by 0.1, apart (the radius is 80)
ResolveDistances == {0, 50, 100, 150, 200}

\* The velocity components along the line of centres, towards and away from
\* the other body, and the components across it
ResolveSpeeds == {-100, 0, 50, 200}

ResolveDrifts == { Zero3, Vec(0, 0, 30) }

InitResolve ==
    /\ params = defaultParams(1)
    /\ positions = [i \in 0 .. 0 |-> latticePosition(0, 1)]
    /\ velocities = [i \in 0 .. 0 |-> Zero3]
    /\ \E n \in PairDirections, d \in ResolveDistances, u \in ResolveSpeeds,
          w \in ResolveSpeeds, drift \in ResolveDrifts, k \in 1 .. 2 :
          /\ CallState(1, << [movingSphere(1, VAdd(PairCentre, NScale(n, d)),
                                           VAdd(NScale(n, u), drift), 100, 2700)
                                EXCEPT !.angularVelocity = Vec(100, 0, 0)],
                             [movingSphere(2, PairCentre, NScale(n, w), 100, 2700)
                                EXCEPT !.angularVelocity = Vec(0, 50, 0)] >>)
          /\ call = [n |-> n, distance |-> d, k |-> k, bodies |-> rigidBodies]
    /\ pc = "checkObjectCollisions"

\* rigidBodies[k].checkObjectCollisions(rigidBodies)
ResolveCall ==
    /\ pc = "checkObjectCollisions"
    /\ rigidBodies' = checkObjectCollisions(call.k, rigidBodies)
    /\ pc' = "resolveDone"
    /\ BodyCallFrame

SpecResolve == InitResolve /\ [][ResolveCall]_vars

\* The pair of the call overlapped, far enough apart for a normal
resolved ==
    /\ pc = "resolveDone"
    /\ ~underflows(call.distance)
    /\ call.distance < collisionRadius(call.bodies[1]) + collisionRadius(call.bodies[2])

\* How far the call has moved body b
displacement(b) == VLength(VSub(rigidBodies[b].position, call.bodies[b].position))

impulseRan ==
    /\ resolved
    /\ \/ NDot(VSub(call.bodies[1].velocity, call.bodies[2].velocity), call.n) < 0
       \/ collisionRadius(call.bodies[1]) + collisionRadius(call.bodies[2]) - call.distance > 10

\* C22: after checkObjectCollisions has run its impulse branch on a pair, the
\* relative velocity of the first body with respect to the second along the
\* normal from the second to the first is not negative.
C22_NotApproachingAfterImpulse ==
    impulseRan
    => NDot(VSub(rigidBodies[1].velocity, rigidBodies[2].velocity), call.n) >= 0


\* What the other body of the pair would have left, called on the same bodies
otherInitiator == checkObjectCollisions(3 - call.k, call.bodies)

\* C23: checkObjectCollisions of one body of the pair and of the other, from
\* the same bodies, leave both bodies with the same position, velocity and
\* angular velocity.
C23_InitiatorDoesNotMatter ==
    pc = "resolveDone"
    => \A b \in 1 .. 2 :
           /\ rigidBodies[b].position = otherInitiator[b].position
           /\ rigidBodies[b].velocity = otherInitiator[b].velocity
           /\ rigidBodies[b].angularVelocity = otherInitiator[b].angularVelocity


\* The distance between the centres of the two bodies
centreDistance == VLength(VSub(rigidBodies[1].position, rigidBodies[2].position))

\* C24: after checkObjectCollisions has resolved an overlapping pair whose
\* centres were at least 0.001 apart, the distance between the centres is the
\* sum of the effective radii (to the 0.01 that the model resolves), whatever
\* the speeds, both bodies at rest included.
C24_SeparatedToContact ==
    resolved
    => Abs(centreDistance
           - (collisionRadius(rigidBodies[1]) + collisionRadius(rigidBodies[2]))) <= 1

\* C24 happens: two spheres at rest 0.5 apart have been resolved and their
\* centres are 1.6 apart, each having moved 0.55.
C24_Witness ==
    /\ resolved
    /\ call.distance = 50
    /\ call.bodies[1].velocity = Zero3
    /\ call.bodies[2].velocity = Zero3
    /\ displacement(1) = 55
    /\ displacement(2) = 55
    /\ centreDistance = 160


\* C25: checkObjectCollisions of a body whose centre is less than 0.001 from
\* the other's (in the calls: at the other's) changes neither body, and it never resolves the body against
\* itself: after the call the two bodies are as they were, still coincident.
C25_CoincidentPairIsSkipped ==
    (pc = "resolveDone" /\ call.distance = 0)
    => /\ rigidBodies = call.bodies
       /\ rigidBodies[1].position = rigidBodies[2].position

\* C25 happens: two coincident spheres with different velocities and spins
\* have been through checkObjectCollisions of the second one.
C25_Witness ==
    /\ pc = "resolveDone"
    /\ call.k = 2
    /\ call.distance = 0
    /\ rigidBodies[1].position = PairCentre
    /\ rigidBodies[2].position = PairCentre
    /\ rigidBodies[1].velocity # rigidBodies[2].velocity
    /\ rigidBodies[1].angularVelocity = Vec(100, 0, 0)


(***************************************************************************)
(* RigidBody.update on its own: the velocity after a clamp                 *)
(***************************************************************************)
\* C26: when RigidBody.update has clamped the body at a face of a domain at
\* least twice its extent wide, the velocity component along the axis of the
\* face does not point out of the domain: it is not negative at a min face
\* and not positive at a max face.
C26_ClampedVelocityPointsInward ==
    (pc = "updateDone" /\ domainHolds(extentAtClamp, params))
    => /\ bodyAtClamp.position.x - extentAtClamp.x < params.boundMin.x
              => rigidBodies[1].velocity.x >= 0
       /\ bodyAtClamp.position.x + extentAtClamp.x > params.boundMax.x
              => rigidBodies[1].velocity.x <= 0
       /\ bodyAtClamp.position.y - extentAtClamp.y < params.boundMin.y
              => rigidBodies[1].velocity.y >= 0
       /\ bodyAtClamp.position.y + extentAtClamp.y > params.boundMax.y
              => rigidBodies[1].velocity.y <= 0
       /\ bodyAtClamp.position.z - extentAtClamp.z < params.boundMin.z
              => rigidBodies[1].velocity.z >= 0
       /\ bodyAtClamp.position.z + extentAtClamp.z > params.boundMax.z
              => rigidBodies[1].velocity.z <= 0


(***************************************************************************)
(* ParticleSystem.handleBoundaryCollision on its own: the velocity         *)
(***************************************************************************)
\* The horizontal component c of the velocity of the call as the side walls
\* find it: the floor, tested first, has taken 5% of it.
afterFloor(c) == IF call.p.y < params.boundMin.y THEN Mul(c, 95, 100) ELSE c

\* The component after of a particle clamped at a face points into the domain
\* (up is TRUE at a min face) or is zero, and its magnitude is damping times
\* the magnitude of the component found.
reflected(after, found, up) ==
    /\ IF up THEN after >= 0 ELSE after <= 0
    /\ Abs(after) = Mul(Abs(found), params.damping, One)

\* C27 as the code has it: a velocity component of a particle that
\* handleBoundaryCollision clamps at a face points into the domain or is zero
\* afterwards, with damping times the magnitude it had before the call on the
\* y axis, and on the x and z axes damping times the magnitude the floor test
\* of the same call has left (0.95 of it when the particle was below the floor).
C27_ClampReflectsInward ==
    pc = "boundaryDone"
    => /\ call.p.y < params.boundMin.y => reflected(velocities[0].y, call.v.y, TRUE)
       /\ call.p.y > params.boundMax.y => reflected(velocities[0].y, call.v.y, FALSE)
       /\ call.p.x < params.boundMin.x
              => reflected(velocities[0].x, afterFloor(call.v.x), TRUE)
       /\ call.p.x > params.boundMax.x
              => reflected(velocities[0].x, afterFloor(call.v.x), FALSE)
       /\ call.p.z < params.boundMin.z
              => reflected(velocities[0].z, afterFloor(call.v.z), TRUE)
       /\ call.p.z > params.boundMax.z
              => reflected(velocities[0].z, afterFloor(call.v.z), FALSE)

\* C27 as stated: at every face the magnitude afterwards is damping times the
\* magnitude before the call.
C27_ClampScalesByDamping ==
    pc = "boundaryDone"
    => /\ call.p.y < params.boundMin.y => reflected(velocities[0].y, call.v.y, TRUE)
       /\ call.p.y > params.boundMax.y => reflected(velocities[0].y, call.v.y, FALSE)
       /\ call.p.x < params.boundMin.x => reflected(velocities[0].x, call.v.x, TRUE)
       /\ call.p.x > params.boundMax.x => reflected(velocities[0].x, call.v.x, FALSE)
       /\ call.p.z < params.boundMin.z => reflected(velocities[0].z, call.v.z, TRUE)
       /\ call.p.z > params.boundMax.z => reflected(velocities[0].z, call.v.z, FALSE)

\* C27 happens: a particle below the floor, moving down at 1.0, and beyond
\* the x-max wall, moving into it at 1.0, has been clamped at both: it leaves
\* the floor at 0.6 and the wall at 0.57.
C27_Witness ==
    /\ pc = "boundaryDone"
    /\ call.p.y < params.boundMin.y
    /\ call.p.x > params.boundMax.x
    /\ call.v = Vec(100, -100, 0)
    /\ velocities[0] = Vec(-57, 60, 0)


(***************************************************************************)
(* A frame after the object-scale slider has resized the bodies            *)
(***************************************************************************)
\* The scales the slider is moved to, with 'all' objects selected
SliderScales == {100, 200, 300}

\* A sphere that slides along a wall while another drifts towards it, the
\* two touching
SlidingPair ==
    << movingBody(1, "sphere", Vec(-720, -420, 0), Vec(0, 0, 300)),
       movingBody(2, "sphere", Vec(-560, -420, 0), Vec(-50, 0, 0)) >>

\* applyParamToSelectedObject('scale', value): every body is resized when
\* selected is 'all' (here 0, which is no body's id), the body of that id
\* otherwise.
applyScale(bodies, selected, value) ==
    [b \in 1 .. Len(bodies) |->
        IF selected = 0 \/ bodies[b].id = selected THEN setScale(bodies[b], value)
        ELSE bodies[b]]

\* The state between two frames of a running simulation in which the
\* object-scale slider has just resized the selected bodies.
InitScaled ==
    /\ params = defaultParams(MaxParticles)
    /\ \E bodies \in RunningBodies \cup {SlidingPair}, scale \in SliderScales :
          \E selected \in 0 .. Len(bodies) :
             CallState(MaxParticles, applyScale(bodies, selected, scale))
    /\ \E p \in [0 .. (MaxParticles - 1) -> RunningPositions],
          v \in [0 .. (MaxParticles - 1) -> RunningVelocities] :
          /\ positions = p
          /\ velocities = v
    /\ call = <<>>
    /\ pc = "idle"

SpecScaled == InitScaled /\ [][RunningFrame]_vars

\* C28: when a frame has run all the body updates and the three extra
\* collision passes, the position of every rigid body lies within
\* [boundMin, boundMax] on every axis.
C28_BodiesStayInDomain ==
    (frame >= 1 /\ pc \in {"scale", "idle"})
    => \A b \in 1 .. Len(rigidBodies) : InDomain(rigidBodies[b].position, params)


(***************************************************************************)
(* RigidBody.update on its own: buoyancy                                   *)
(***************************************************************************)
\* The rest densities of the fluid, in hundredths: air, 1.25 times each body
\* density of the calls, water, mercury
FluidDensities == {120, 75000, 100000, 125000, 337500, 1360000}

\* The densities of the body: wood, water, aluminium
BuoyantDensities == {600, 1000, 2700}

InitBuoyancy ==
    /\ \E fluid \in FluidDensities, speed \in {10, 50} :
          params = [defaultParams(1) EXCEPT !.restDensity = fluid, !.simulationSpeed = speed]
    /\ \E p \in {latticePosition(0, 1), PairCentre}, v \in {Zero3, Vec(0, -400, 0)} :
          /\ positions = [i \in 0 .. 0 |-> p]
          /\ velocities = [i \in 0 .. 0 |-> v]
    /\ \E density \in BuoyantDensities, vy \in {-100, 0} :
          CallState(1, << movingSphere(1, PairCentre, Vec(0, vy, 0), 100, density) >>)
    /\ call = [bodies |-> rigidBodies]
    /\ pc = "update"

SpecBuoyancy == InitBuoyancy /\ [][BodyCall]_vars

DensityMasses == {0, 4, 100}

DensityRadii == {25, 50}

InitDensity ==
    /\ \E mass \in DensityMasses, h \in DensityRadii :
          params = [defaultParams(3) EXCEPT !.particleMass = mass, !.smoothingRadius = h]
    /\ CallState(3, <<>>)
    /\ positions \in [0 .. 2 -> ForcePositions]
    /\ velocities = [i \in 0 .. 2 |-> Zero3]
    /\ call = <<>>
    /\ pc = "computeDensity"

\* this.computeDensity()
DensityCall ==
    /\ pc = "computeDensity"
    /\ \E dens \in { computeDensity(positions, numParticles, params) } :
          /\ densities' = dens
          /\ pressures' = computePressure(dens, numParticles, params)
    /\ pc' = "densityDone"
    /\ UNCHANGED <<simVars, numParticles, positions, velocities, forces, loopVars,
                   historyVars>>

SpecDensity == InitDensity /\ [][DensityCall]_vars

\* C30: after the density pass, with particleMass >= 0 and smoothingRadius > 0,
\* the density of every particle is at least its own term mass * W(0, h), and
\* so not negative, wherever the particles are.
C30_DensityAtLeastSelfTerm ==
    pc = "densityDone"
    => \A i \in Particles :
          /\ densities[i] >= Mul(params.particleMass,
                                 poly6Kernel(0, params.smoothingRadius), One)
          /\ Mul(params.particleMass, poly6Kernel(0, params.smoothingRadius), One) >= 0
          /\ densities[i] >= 0

\* C30 happens: of three particles of mass 1.0, two are within h = 0.5 of each
\* other and denser than their own term, and the third has exactly its own
\* term, 12.53.
C30_Witness ==
    /\ pc = "densityDone"
    /\ params.particleMass = 100
    /\ params.smoothingRadius = 50
    /\ separation(0, 1) = 30
    /\ densities[0] > 1253
    /\ densities[1] > 1253
    /\ densities[2] = 1253

=============================================================================
